---- MODULE Spec2Model ----
(***************************************************************************)
(* Verification model of the metric calculators and paginated fetchers of  *)
(* the GitHub metrics backend (Rohith/repo_metrics, Sujan/src, src/).      *)
(*                                                                         *)
(* Python floats are modelled as exact rationals [num, den] (den > 0, in   *)
(* lowest terms); IEEE rounding is outside the model.                      *)
(***************************************************************************)
EXTENDS Integers, Sequences, FiniteSets, TLC

VARIABLES
    \* ---- bus factor (Rohith/repo_metrics/domain/metrics/bus_factor.py)
    busPc,             \* position: "off", "fetch", "compute", "returned", "done"
    busFn,             \* function being executed
    busApiLog,         \* the commits the REST API serves for the window
    busThreshold,      \* threshold_percent
    busPage,           \* page
    busAuthorCommits,  \* author_commits, in dict insertion order
    busRet,            \* value returned by calculate_bus_factor
    busDetails,        \* value returned by calculate_bus_factor_details
    \* ---- lead time (Rohith/repo_metrics/domain/metrics/pr_lead_time.py)
    leadPc,            \* "off", "call", "summarised", "percentile"
    leadPrs,           \* merged_prs, the records handed to the summary
    leadValues,        \* values, after values.sort()
    leadSummary,       \* the dict pr_merge_lead_time_summary returns
    leadP,             \* p of the last _percentile call
    leadPercentile,    \* result of the last _percentile call
    \* ---- churn and hotspots (Sujan/src/metrics/code_quality_metrics.py)
    churnPc,           \* "off", "call", "churned", "done"
    churnDetails,      \* commit_details
    churnThreshold,    \* churn_threshold
    commitThreshold,   \* commit_threshold
    churn,             \* churn, a Counter in insertion order
    commit_count,      \* commit_count, a Counter in insertion order
    hotspots,          \* the list find_hotspot_files returns
    \* ---- parallel commit details (Sujan/src/runners/code_quality_runner.py)
    poolPc,            \* "off", "pool" (inside the with block), "returned", "done"
    poolCommits,       \* commits, with the detail the API holds for each sha
    poolMaxWorkers,    \* max_workers
    poolSubmitted,     \* number of executor.submit calls made so far
    poolQueue,         \* work items waiting for a worker thread
    poolRunning,       \* shas whose fetch_commit_details call is executing
    poolFinished,      \* finished futures not yet yielded: sha -> TRUE (result) / FALSE (raised)
    poolYielded,       \* shas of the futures as_completed has yielded
    details,           \* details
    commit_dates,      \* commit_dates, a dict in insertion order
    stale_files,       \* the list find_stale_files returns
    \* ---- day/week/month buckets (commits_time_distribution.py, merge_frequency.py)
    bucketPc,          \* "off", "call", "merges", "done", "raised"
    bucketCommits,     \* commits handed to commits_per_day_week_month
    bucketPrs,         \* merged_prs handed to merges_per_day_week_month
    commitBuckets,     \* (per_day, per_week, per_month) of the commits
    mergeBuckets,      \* (per_day, per_week, per_month) of the merges
    \* ---- paginated fetchers
    pgKind,            \* the fetcher that runs
    pgPc,              \* "off", "loop", "waiting" (in an HTTP call), "done" (returned), "raised"
    pgPage,            \* page (for the GraphQL loop: the number of the next request)
    pgBound,           \* max_pages / MAX_COMMIT_PAGES / page_limit
    pgNoLimit,         \* page_limit is None
    pgResponse,        \* the answer to the last request: "start" (none yet), "items", "empty", "http_error"
    pgRequests,        \* page requests issued so far
    pgSawEmpty,        \* an empty page was returned
    pgAfterEmpty,      \* page requests issued after the first empty page
    pgFetched,         \* the pages whose items were collected, in order
    apiNonEmpty,       \* the API: pages 1..apiNonEmpty hold items
    apiEndless,        \* the API: every page holds items (hasNextPage always true)
    apiFailAt,         \* the API: the request of this page gets a definitive error (0: none)
    \* ---- retrying clients (Rohith github_client.py, Sujan/src/github_client.py)
    rtClient,          \* "off", "rohith" (rest_get_paginated) or "sujan" (fetch_all_issues over get)
    rtMaxRetries,      \* max_retries
    rtBound,           \* page_limit / max_pages
    rtPc,              \* "off", "caller", "attempt" (inside the client's for loop), "returned", "raised"
    rtPage,            \* page
    rtAttempt,         \* attempt, the index of the client's for loop
    rtLastExc,         \* last_exc / last_error: "none", "timeout", "connection"
    rtCallLog,         \* the requests of the current client call: response and whether a sleep followed
    rtCallResult,      \* how the client call ended: "start", "pending", "items", "empty", "exc"
    rtExcType,         \* class of the exception raised
    rtExcOf,           \* the response or failure the exception carries ("none": it carries none)
    rtLog,             \* every request of the fetch: <<page, "items" | "empty" | "fail">>
    rtFetched,         \* the pages whose items were yielded / appended
    \* ---- tool entry points (Sujan/src/main.py with config.py, Dinesh-Kumar/run.py)
    stEntry,           \* "off", "sujan_main", "dinesh_run"
    stToken,           \* GITHUB_TOKEN is set in the environment
    stRepoArg,         \* the repo argument, as the list of its pieces between "/" (<<>>: none given)
    stCloneExists,     \* the clone directory exists already
    stApiOk,           \* the network answers successfully
    stPc,              \* "off", "import", "parse", "clone", "verify", "commits", "run", "export", "exited"
    stOwnerRepo,       \* <<owner, repo>> once determined
    stNetwork,         \* the network calls issued, in order
    stTokenErrorCaught, \* the missing token was caught as the failure of one call
    stExit,            \* how the process ended: "none" (it runs), "success" (status 0), "failure" (non-zero)
    \* ---- time-based aggregations over records whose timestamp may be null
    aggFn,             \* the aggregation called
    aggRecords,        \* the records handed to it
    aggPc,             \* "off", "call", "returned", "raised"
    aggResult,         \* the value returned (None before the return or after a raise)
    aggExc,            \* class of the exception that escaped ("none": none)
    \* ---- export steps (csv_exporter.py, reports/csv_writer.py, run_metrics.main)
    exPipeline,        \* "off", "dinesh_run", "run_code_quality_metrics", "run_metrics_main"
    exFiles,           \* per step, the state of its output file: "ok", "locked", "unwritable"
    exIndex,           \* the step to run next
    exWritten,         \* the steps whose file was written
    exSkipped,         \* the steps whose write error was caught
    exPc,              \* "off", "run", "finished", "aborted" (an exception left the pipeline)
    \* ---- waits of _request_with_retries (adapters/github/github_client.py)
    boMaxRetries,      \* self.max_retries
    boBackoff,         \* self.backoff_seconds
    boAttempt,         \* attempt
    boSleeps,          \* the time.sleep calls so far: attempt, seconds, response, Retry-After
    boPc,              \* "off", "loop", "returned", "raised"
    \* ---- "most recent buckets" tables of the PDF report (exporters/pdf_report.py)
    tlStamps,          \* the commit timestamps behind per_day, per_week, per_month
    tlN,               \* n of tail_items
    tlDayTable,        \* tail_items(per_day, n)
    tlWeekTable,       \* tail_items(per_week, n)
    tlMonthTable,      \* tail_items(per_month, n)
    tlPc,              \* "off", "day", "week", "month", "done"
    \* ---- issues_created_vs_closed_per_sprint (Sujan/src/metrics/issue_backlog_metrics.py)
    spIssues,          \* issues
    spStart,           \* sprint_start_date (None by default)
    spDays,            \* sprint_days
    spResult,          \* the returned {"created": ..., "closed": ...}
    spPc,              \* "off", "call", "returned"
    \* ---- bug_vs_feature_ratio (Sujan/src/metrics/issue_backlog_metrics.py)
    lbIssues,          \* issues: each the list of its label names
    lbResult,          \* the returned dict
    lbPc,              \* "off", "call", "returned"
    \* ---- modes of Sujan/src/main.py and run_pdf_report (runners/pdf_report_runner.py)
    mdEntry,           \* "off", "main" (python main.py --mode ...), "run_pdf_report" (called with its arguments)
    mdMode,            \* args.mode
    mdCsv,             \* per runner, its CSV files: "absent", "stale" (of an earlier run), "fresh"
    mdEvents,          \* the runners and generators that have finished, in order
    mdExc,             \* the exception that left main, or "none"
    mdPc,              \* the statement to run next, "exit" or "raised"
    \* ---- record caps of fetch_merged_pull_requests, fetch_closed_not_merged_prs, lines_added_vs_deleted
    cpFn,              \* the fetcher running, or "off"
    cpCap,             \* max_prs / max_commits
    cpApi,             \* the pages the API serves, each a list of nodes
    cpPage,            \* the page requested next
    cpOut,             \* prs / out / the commits whose detail was fetched
    cpPc               \* "off", "loop", "returned"

busVars == <<busPc, busFn, busApiLog, busThreshold, busPage, busAuthorCommits,
             busRet, busDetails>>

leadVars == <<leadPc, leadPrs, leadValues, leadSummary, leadP, leadPercentile>>

churnVars == <<churnPc, churnDetails, churnThreshold, commitThreshold, churn,
               commit_count, hotspots>>

poolVars == <<poolPc, poolCommits, poolMaxWorkers, poolSubmitted, poolQueue,
              poolRunning, poolFinished, poolYielded, details, commit_dates, stale_files>>

bucketVars == <<bucketPc, bucketCommits, bucketPrs, commitBuckets, mergeBuckets>>

pageVars == <<pgKind, pgPc, pgPage, pgBound, pgNoLimit, pgResponse, pgRequests, pgSawEmpty,
              pgAfterEmpty, pgFetched, apiNonEmpty, apiEndless, apiFailAt>>

retryVars == <<rtClient, rtMaxRetries, rtBound, rtPc, rtPage, rtAttempt, rtLastExc, rtCallLog,
               rtCallResult, rtExcType, rtExcOf, rtLog, rtFetched>>

startupVars == <<stEntry, stToken, stRepoArg, stCloneExists, stApiOk, stPc, stOwnerRepo,
                 stNetwork, stTokenErrorCaught, stExit>>

aggVars == <<aggFn, aggRecords, aggPc, aggResult, aggExc>>

exportVars == <<exPipeline, exFiles, exIndex, exWritten, exSkipped, exPc>>

backoffVars == <<boMaxRetries, boBackoff, boAttempt, boSleeps, boPc>>

tailVars == <<tlStamps, tlN, tlDayTable, tlWeekTable, tlMonthTable, tlPc>>

sprintVars == <<spIssues, spStart, spDays, spResult, spPc>>

labelVars == <<lbIssues, lbResult, lbPc>>

modeVars == <<mdEntry, mdMode, mdCsv, mdEvents, mdExc, mdPc>>

capVars == <<cpFn, cpCap, cpApi, cpPage, cpOut, cpPc>>

vars == <<busVars, leadVars, churnVars, poolVars, bucketVars, pageVars, retryVars,
          startupVars, aggVars, exportVars, backoffVars, tailVars, sprintVars, labelVars,
          modeVars, capVars>>

\* what the actions of one component leave alone
notBus == <<leadVars, churnVars, poolVars, bucketVars, pageVars, retryVars, startupVars,
            aggVars, exportVars, backoffVars, tailVars, sprintVars, labelVars, modeVars,
            capVars>>

notLead == <<busVars, churnVars, poolVars, bucketVars, pageVars, retryVars, startupVars,
             aggVars, exportVars, backoffVars, tailVars, sprintVars, labelVars, modeVars,
             capVars>>

notChurn == <<busVars, leadVars, poolVars, bucketVars, pageVars, retryVars, startupVars,
              aggVars, exportVars, backoffVars, tailVars, sprintVars, labelVars, modeVars,
              capVars>>

notPool == <<busVars, leadVars, churnVars, bucketVars, pageVars, retryVars, startupVars,
             aggVars, exportVars, backoffVars, tailVars, sprintVars, labelVars, modeVars,
             capVars>>

notBucket == <<busVars, leadVars, churnVars, poolVars, pageVars, retryVars, startupVars,
               aggVars, exportVars, backoffVars, tailVars, sprintVars, labelVars, modeVars,
               capVars>>

notPage == <<busVars, leadVars, churnVars, poolVars, bucketVars, retryVars, startupVars,
             aggVars, exportVars, backoffVars, tailVars, sprintVars, labelVars, modeVars,
             capVars>>

notRetry == <<busVars, leadVars, churnVars, poolVars, bucketVars, pageVars, startupVars,
              aggVars, exportVars, backoffVars, tailVars, sprintVars, labelVars, modeVars,
              capVars>>

notStartup == <<busVars, leadVars, churnVars, poolVars, bucketVars, pageVars, retryVars,
                aggVars, exportVars, backoffVars, tailVars, sprintVars, labelVars, modeVars,
                capVars>>

notAgg == <<busVars, leadVars, churnVars, poolVars, bucketVars, pageVars, retryVars,
            startupVars, exportVars, backoffVars, tailVars, sprintVars, labelVars, modeVars,
            capVars>>

notExport == <<busVars, leadVars, churnVars, poolVars, bucketVars, pageVars, retryVars,
               startupVars, aggVars, backoffVars, tailVars, sprintVars, labelVars, modeVars,
               capVars>>

notBackoff == <<busVars, leadVars, churnVars, poolVars, bucketVars, pageVars, retryVars,
                startupVars, aggVars, exportVars, tailVars, sprintVars, labelVars, modeVars,
                capVars>>

notTail == <<busVars, leadVars, churnVars, poolVars, bucketVars, pageVars, retryVars,
             startupVars, aggVars, exportVars, backoffVars, sprintVars, labelVars, modeVars,
             capVars>>

notSprint == <<busVars, leadVars, churnVars, poolVars, bucketVars, pageVars, retryVars,
               startupVars, aggVars, exportVars, backoffVars, tailVars, labelVars, modeVars,
               capVars>>

notLabel == <<busVars, leadVars, churnVars, poolVars, bucketVars, pageVars, retryVars,
              startupVars, aggVars, exportVars, backoffVars, tailVars, sprintVars, modeVars,
              capVars>>

notMode == <<busVars, leadVars, churnVars, poolVars, bucketVars, pageVars, retryVars,
             startupVars, aggVars, exportVars, backoffVars, tailVars, sprintVars, labelVars,
             capVars>>

notCap == <<busVars, leadVars, churnVars, poolVars, bucketVars, pageVars, retryVars,
            startupVars, aggVars, exportVars, backoffVars, tailVars, sprintVars, labelVars,
            modeVars>>

\* Python None (optional values are records in this model)
None == [none |-> TRUE]

(***************************************************************************)
(* Bounds of the model                                                     *)
(***************************************************************************)
MaxCount == 3
PerPage == 4
MaxPrs == 3
MaxDetails == 3
MaxPoolCommits == 2
MaxWorkers == 2
MaxRecords == 3
MaxBound == 3
MaxApiPages == 3

(***************************************************************************)
(* Exact rational arithmetic standing for Python float arithmetic          *)
(***************************************************************************)
RECURSIVE Gcd(_, _)
Gcd(a, b) == IF b = 0 THEN a ELSE Gcd(b, a % b)

Abs(x) == IF x < 0 THEN -x ELSE x

Rat(n, d) == LET g == Gcd(Abs(n), d) IN [num |-> n \div g, den |-> d \div g]

RatInt(i) == [num |-> i, den |-> 1]

RatLt(a, b) == a.num * b.den < b.num * a.den

RatLe(a, b) == a.num * b.den <= b.num * a.den

RatAdd(a, b) == Rat(a.num * b.den + b.num * a.den, a.den * b.den)

RatSub(a, b) == Rat(a.num * b.den - b.num * a.den, a.den * b.den)

RatMul(a, b) == Rat(a.num * b.num, a.den * b.den)

RECURSIVE SumSeq(_)
SumSeq(s) == IF s = <<>> THEN 0 ELSE Head(s) + SumSeq(Tail(s))

Range(s) == {s[i] : i \in DOMAIN s}

Min2(a, b) == IF a < b THEN a ELSE b

(***************************************************************************)
(* Bus factor                                                              *)
(***************************************************************************)
Logins == {"A", "B"}
Emails == {"c@mail"}
Authors == Logins \cup Emails

\* a commit of the REST API: "author" is null for commits with no account
ApiCommit(key) ==
    IF key \in Logins
    THEN [author |-> [login |-> key], commit |-> [author |-> [email |-> "x@mail"]]]
    ELSE [author |-> None, commit |-> [author |-> [email |-> key]]]

\* the identity key of a commit
AuthorOf(commit) ==
    IF commit.author # None THEN commit.author.login
    ELSE commit.commit.author.email

\* client.rest_get of one page of the commit list
RestGetPage(log, page, per_page) ==
    SubSeq(log, (page - 1) * per_page + 1, Min2(page * per_page, Len(log)))

\* author_commits[author] += 1 on a defaultdict(int) kept in insertion order
DictIncr(d, key) ==
    IF \E i \in DOMAIN d : d[i][1] = key
    THEN [i \in DOMAIN d |-> IF d[i][1] = key THEN <<key, d[i][2] + 1>> ELSE d[i]]
    ELSE Append(d, <<key, 1>>)

RECURSIVE CountAuthors(_, _)
CountAuthors(d, commits) ==
    IF commits = <<>> THEN d
    ELSE CountAuthors(DictIncr(d, AuthorOf(Head(commits))), Tail(commits))

\* a plausible slip: an unstable sort, a later item overtaking its ties
StaysBeforeStrict(earlier, later) == earlier[2] > later[2]

\* key=lambda x: x[1], reverse=True: an earlier item stays before a later one
\* unless the later one has more commits
StaysBefore(earlier, later) == earlier[2] >= later[2]

\* sorted(items, key=lambda x: x[1], reverse=True): stable, descending count
RECURSIVE InsertDesc(_, _)
InsertDesc(sorted, item) ==
    IF sorted = <<>> THEN <<item>>
    ELSE IF StaysBefore(Head(sorted), item)
         THEN <<Head(sorted)>> \o InsertDesc(Tail(sorted), item)
         ELSE <<item>> \o sorted

RECURSIVE SortedAuthors(_)
SortedAuthors(items) ==
    IF items = <<>> THEN <<>>
    ELSE InsertDesc(SortedAuthors(SubSeq(items, 1, Len(items) - 1)), items[Len(items)])

TotalCommits(d) == SumSeq([i \in DOMAIN d |-> d[i][2]])

\* the loop of calculate_bus_factor, from position i of sorted_authors
RECURSIVE BusWalk(_, _, _, _, _, _)
BusWalk(sorted, i, cumulative, bus_factor, total, threshold) ==
    IF i > Len(sorted)
    THEN [bus_factor |-> bus_factor,
          ownership_percent |-> IF i = 1 THEN RatInt(0) ELSE Rat(cumulative * 100, total)]
    ELSE LET cum == cumulative + sorted[i][2]
             own == Rat(cum * 100, total)
         IN IF RatLe(threshold, own)
            THEN [bus_factor |-> bus_factor + 1, ownership_percent |-> own]
            ELSE BusWalk(sorted, i + 1, cum, bus_factor + 1, total, threshold)

\* a plausible slip: the empty window not recognised
NoCommitsNegative(total_commits) == total_commits < 0

\* "if total_commits == 0"
NoCommits(total_commits) == total_commits = 0

\* calculate_bus_factor after the fetch loop
CalculateBusFactor(author_commits, threshold) ==
    LET total == TotalCommits(author_commits)
    IN IF NoCommits(total)
       THEN [bus_factor |-> None, ownership_percent |-> None]
       ELSE BusWalk(SortedAuthors(author_commits), 1, 0, 0, total, threshold)

\* a plausible slip: the test made on the ownership after adding the contributor
StillBelowInclusive(ownership, threshold) == RatLe(ownership, threshold)

\* "if ownership_percent < threshold_percent" of calculate_bus_factor_details
StillBelow(ownership, threshold) == RatLt(ownership, threshold)

\* the loop of calculate_bus_factor_details, from position i of sorted_authors
RECURSIVE DetailsWalk(_, _, _, _, _, _, _, _)
DetailsWalk(sorted, i, cumulative, bus_factor, ownership, contributors, total, threshold) ==
    IF i > Len(sorted)
    THEN [total_commits |-> total,
          bus_factor |-> bus_factor,
          ownership_percent |-> ownership,
          contributors |-> contributors]
    ELSE LET cum == cumulative + sorted[i][2]
             cumulative_percent == Rat(cum * 100, total)
             percent == Rat(sorted[i][2] * 100, total)
             in_bus_factor == StillBelow(ownership, threshold)
             row == [author |-> sorted[i][1],
                     commits |-> sorted[i][2],
                     ownership_percent |-> percent,
                     cumulative_ownership_percent |-> cumulative_percent,
                     in_bus_factor |-> in_bus_factor]
         IN DetailsWalk(sorted, i + 1, cum,
                        IF in_bus_factor THEN bus_factor + 1 ELSE bus_factor,
                        IF in_bus_factor THEN cumulative_percent ELSE ownership,
                        Append(contributors, row), total, threshold)

\* calculate_bus_factor_details after the fetch loop
CalculateBusFactorDetails(author_commits, threshold) ==
    LET total == TotalCommits(author_commits)
    IN IF NoCommits(total)
       THEN [total_commits |-> 0, bus_factor |-> None, ownership_percent |-> None,
             contributors |-> <<>>]
       ELSE DetailsWalk(SortedAuthors(author_commits), 1, 0, 0, RatInt(0), <<>>,
                        total, threshold)

(***************************************************************************)
(* Bus factor: inputs, Init and actions                                    *)
(***************************************************************************)
Thresholds == {RatInt(-5), RatInt(0), RatInt(25), RatInt(50), RatInt(60),
               RatInt(100), RatInt(150)}

AuthorOrders ==
    {o \in [1..Cardinality(Authors) -> Authors] : Range(o) = Authors}

RECURSIVE Repeat(_, _)
Repeat(x, n) == IF n <= 0 THEN <<>> ELSE <<x>> \o Repeat(x, n - 1)

RECURSIVE FirstSeen(_, _)
FirstSeen(order, cnt) ==
    IF order = <<>> THEN <<>>
    ELSE (IF cnt[Head(order)] > 0 THEN <<ApiCommit(Head(order))>> ELSE <<>>)
         \o FirstSeen(Tail(order), cnt)

RECURSIVE Remaining(_, _)
Remaining(order, cnt) ==
    IF order = <<>> THEN <<>>
    ELSE Repeat(ApiCommit(Head(order)), cnt[Head(order)] - 1)
         \o Remaining(Tail(order), cnt)

\* a commit history in which the authors first appear in the given order
BuildLog(order, cnt) == FirstSeen(order, cnt) \o Remaining(order, cnt)

ExampleCounts == [a \in Authors |-> IF a = "A" THEN 60 ELSE IF a = "B" THEN 30 ELSE 10]

BusInputs ==
    {BuildLog(o, c) : o \in AuthorOrders, c \in [Authors -> 0..MaxCount]}
    \cup {BuildLog(o, ExampleCounts) : o \in AuthorOrders}

BusOff ==
    /\ busPc = "off"
    /\ busFn = "none"
    /\ busApiLog = <<>>
    /\ busThreshold = RatInt(50)
    /\ busPage = 1
    /\ busAuthorCommits = <<>>
    /\ busRet = None
    /\ busDetails = None

\* run_metrics.main calls calculate_bus_factor first
BusInit ==
    /\ busPc = "fetch"
    /\ busFn = "calculate_bus_factor"
    /\ busApiLog \in BusInputs
    /\ busThreshold \in Thresholds
    /\ busPage = 1
    /\ busAuthorCommits = <<>>
    /\ busRet = None
    /\ busDetails = None

\* one iteration of the while-True loop on a non-empty page
BusFetchPage ==
    /\ busPc = "fetch"
    /\ LET commits == RestGetPage(busApiLog, busPage, PerPage)
       IN /\ commits # <<>>
          /\ busAuthorCommits' = CountAuthors(busAuthorCommits, commits)
          /\ busPage' = busPage + 1
    /\ UNCHANGED <<busPc, busFn, busApiLog, busThreshold, busRet, busDetails>>
    /\ UNCHANGED notBus

\* calculate_bus_factor: the empty page breaks the loop, the walk runs, it returns
BusFactorReturn ==
    /\ busPc = "fetch"
    /\ busFn = "calculate_bus_factor"
    /\ RestGetPage(busApiLog, busPage, PerPage) = <<>>
    /\ busRet' = CalculateBusFactor(busAuthorCommits, busThreshold)
    /\ busPc' = "returned"
    /\ UNCHANGED <<busFn, busApiLog, busThreshold, busPage, busAuthorCommits, busDetails>>
    /\ UNCHANGED notBus

\* run_metrics.main goes on to call calculate_bus_factor_details
BusCallDetails ==
    /\ busPc = "returned"
    /\ busFn = "calculate_bus_factor"
    /\ busFn' = "calculate_bus_factor_details"
    /\ busPc' = "fetch"
    /\ busPage' = 1
    /\ busAuthorCommits' = <<>>
    /\ UNCHANGED <<busApiLog, busThreshold, busRet, busDetails>>
    /\ UNCHANGED notBus

\* calculate_bus_factor_details: empty page, the walk, return
BusDetailsReturn ==
    /\ busPc = "fetch"
    /\ busFn = "calculate_bus_factor_details"
    /\ RestGetPage(busApiLog, busPage, PerPage) = <<>>
    /\ busDetails' = CalculateBusFactorDetails(busAuthorCommits, busThreshold)
    /\ busPc' = "done"
    /\ UNCHANGED <<busFn, busApiLog, busThreshold, busPage, busAuthorCommits, busRet>>
    /\ UNCHANGED notBus

BusNext ==
    \/ BusFetchPage
    \/ BusFactorReturn
    \/ BusCallDetails
    \/ BusDetailsReturn


(***************************************************************************)
(* Bus factor: properties                                                  *)
(***************************************************************************)
\* number of commits of an author in the served history
CommitsBy(a) == Cardinality({i \in DOMAIN busApiLog : AuthorOf(busApiLog[i]) = a})

DistinctAuthors == {a \in Authors : CommitsBy(a) > 0}

RECURSIVE SumOver(_)
SumOver(S) ==
    IF S = {} THEN 0
    ELSE LET a == CHOOSE x \in S : TRUE IN CommitsBy(a) + SumOver(S \ {a})

\* commits of the k authors with the most commits
TopSum(k) ==
    LET sums == {SumOver(S) : S \in {T \in SUBSET DistinctAuthors : Cardinality(T) = k}}
    IN CHOOSE m \in sums : \A x \in sums : x <= m

TopShare(k) == Rat(TopSum(k) * 100, Len(busApiLog))

ThresholdInRange == RatLe(RatInt(0), busThreshold) /\ RatLe(busThreshold, RatInt(100))

MeetsContract(b) ==
    /\ b >= 1
    /\ b <= Cardinality(DistinctAuthors)
    /\ RatLe(busThreshold, TopShare(b))
    /\ (b > 1 => RatLt(TopShare(b - 1), busThreshold))

IsExampleLog == \A a \in Authors : CommitsBy(a) = ExampleCounts[a]

\* C1: for non-empty commit counts and a threshold in 0..100 both calculators
\* return a bus factor b, 1 <= b <= number of authors, whose top-b share is >= the
\* threshold while the top-(b-1) share is below it; {A:60, B:30, C:10} with
\* threshold 50 gives b = 1 and ownership 60.
C1_BusFactorContract ==
    (busApiLog # <<>> /\ ThresholdInRange) =>
        /\ busRet # None =>
              /\ MeetsContract(busRet.bus_factor)
              /\ (IsExampleLog /\ busThreshold = RatInt(50)) =>
                    (busRet.bus_factor = 1 /\ busRet.ownership_percent = RatInt(60))
        /\ busDetails # None =>
              /\ MeetsContract(busDetails.bus_factor)
              /\ (IsExampleLog /\ busThreshold = RatInt(50)) =>
                    (busDetails.bus_factor = 1 /\ busDetails.ownership_percent = RatInt(60))

RowsBefore(rows, i) == SumSeq([j \in 1..(i - 1) |-> rows[j].commits])

Marked(rows) == {i \in DOMAIN rows : rows[i].in_bus_factor}

\* C2: a contributor row is marked in_bus_factor exactly when the cumulative
\* ownership of the rows before it is below threshold_percent; the marked rows
\* form a prefix and their number is the returned bus_factor.
C2_MarkedRows ==
    (busDetails # None /\ busDetails.contributors # <<>>) =>
        LET rows == busDetails.contributors
            total == busDetails.total_commits
        IN /\ \A i \in DOMAIN rows :
                 rows[i].in_bus_factor <=>
                     RatLt(Rat(RowsBefore(rows, i) * 100, total), busThreshold)
           /\ \A i \in DOMAIN rows : \A j \in DOMAIN rows :
                 (i < j /\ rows[j].in_bus_factor) => rows[i].in_bus_factor
           /\ Cardinality(Marked(rows)) = busDetails.bus_factor

\* a run of calculate_bus_factor_details that marked some rows and left others
C2_Witness ==
    /\ busDetails # None
    /\ busDetails.contributors # <<>>
    /\ \E i \in DOMAIN busDetails.contributors : busDetails.contributors[i].in_bus_factor
    /\ \E i \in DOMAIN busDetails.contributors : ~busDetails.contributors[i].in_bus_factor
    /\ busDetails.bus_factor >= 2

\* position of the first commit of an author in the served history
FirstIndex(a) ==
    CHOOSE i \in DOMAIN busApiLog :
        /\ AuthorOf(busApiLog[i]) = a
        /\ \A j \in 1..(i - 1) : AuthorOf(busApiLog[j]) # a

RECURSIVE RatSumOf(_)
RatSumOf(rs) == IF rs = <<>> THEN RatInt(0) ELSE RatAdd(Head(rs), RatSumOf(Tail(rs)))

\* C19: the contributor list of calculate_bus_factor_details has one row per
\* distinct author with that author's commit count, in non-increasing order of
\* commits, ties in first-seen order; cumulative_ownership_percent is
\* non-decreasing along it and at most 100, and the ownership percentages sum
\* to at most 100.
C19_ContributorRows ==
    (busDetails # None /\ busDetails.contributors # <<>>) =>
        LET rows == busDetails.contributors
        IN /\ Len(rows) = Cardinality(DistinctAuthors)
           /\ {rows[i].author : i \in DOMAIN rows} = DistinctAuthors
           /\ \A i \in DOMAIN rows : rows[i].commits = CommitsBy(rows[i].author)
           /\ \A i \in DOMAIN rows : \A j \in DOMAIN rows :
                 i < j =>
                    /\ rows[i].commits >= rows[j].commits
                    /\ rows[i].commits = rows[j].commits =>
                          FirstIndex(rows[i].author) < FirstIndex(rows[j].author)
                    /\ RatLe(rows[i].cumulative_ownership_percent,
                             rows[j].cumulative_ownership_percent)
           /\ \A i \in DOMAIN rows : RatLe(rows[i].cumulative_ownership_percent, RatInt(100))
           /\ RatLe(RatSumOf([i \in DOMAIN rows |-> rows[i].ownership_percent]), RatInt(100))

\* three authors, the two with equal counts listed in the order of their first
\* commits, which is not the alphabetical one
C19_Witness ==
    /\ busPc = "done"
    /\ Len(busDetails.contributors) = 3
    /\ busDetails.contributors[1].author = "B"
    /\ busDetails.contributors[2].author = "c@mail"
    /\ busDetails.contributors[3].author = "A"
    /\ busDetails.contributors[2].commits = busDetails.contributors[3].commits
    /\ busDetails.contributors[1].commits > busDetails.contributors[2].commits

\* C20: with no commits in the window calculate_bus_factor returns (None, None)
\* and calculate_bus_factor_details returns total_commits 0, no contributors,
\* ownership_percent None and bus_factor None.
C20_EmptyWindow ==
    busApiLog = <<>> =>
        /\ busRet # None =>
              /\ busRet.ownership_percent = None
              /\ busRet.bus_factor = None
        /\ busDetails # None =>
              /\ busDetails.total_commits = 0
              /\ busDetails.contributors = <<>>
              /\ busDetails.ownership_percent = None
              /\ busDetails.bus_factor = None

C20_Witness ==
    /\ busApiLog = <<>>
    /\ busPc = "done"
    /\ busRet = [bus_factor |-> None, ownership_percent |-> None]
    /\ busDetails.total_commits = 0

\* C27: calculate_bus_factor and calculate_bus_factor_details, run on the same
\* per-author commit counts with the same threshold_percent, return the same
\* bus_factor and the same ownership_percent for every threshold value,
\* including thresholds <= 0 and thresholds > 100.
C27_CalculatorsAgree ==
    (busRet # None /\ busDetails # None) =>
        /\ busDetails.ownership_percent = busRet.ownership_percent
        /\ busDetails.bus_factor = busRet.bus_factor

(***************************************************************************)
(* Timestamps: a GitHub timestamp string "YYYY-MM-DDTHH:MM:SSZ" is the     *)
(* record of its fields; datetime arithmetic follows Python's datetime.    *)
(***************************************************************************)
Stamp(y, mo, d, h, mi) ==
    [year |-> y, month |-> mo, day |-> d, hour |-> h, minute |-> mi, second |-> 0]

IsLeap(y) == y % 4 = 0 /\ (y % 100 # 0 \/ y % 400 = 0)

DaysInMonth(y, mo) ==
    IF mo = 2 THEN (IF IsLeap(y) THEN 29 ELSE 28)
    ELSE IF mo \in {4, 6, 9, 11} THEN 30 ELSE 31

DaysBeforeYear(y) ==
    LET p == y - 1 IN p * 365 + (p \div 4) - (p \div 100) + (p \div 400)

RECURSIVE DaysBeforeMonth(_, _)
DaysBeforeMonth(y, mo) ==
    IF mo = 1 THEN 0 ELSE DaysBeforeMonth(y, mo - 1) + DaysInMonth(y, mo - 1)

\* date.toordinal()
Ordinal(y, mo, d) == DaysBeforeYear(y) + DaysBeforeMonth(y, mo) + d

\* parse_github_datetime: the instant as (ordinal day, second of the day), UTC
ParseGithubDatetime(str) ==
    [ord |-> Ordinal(str.year, str.month, str.day),
     sec |-> str.hour * 3600 + str.minute * 60 + str.second,
     year |-> str.year, month |-> str.month, day |-> str.day]

\* (b - a).total_seconds()
TotalSeconds(a, b) == (b.ord - a.ord) * 86400 + (b.sec - a.sec)

(***************************************************************************)
(* Lead time                                                               *)
(***************************************************************************)
\* int(math.floor(rank)) and int(math.ceil(rank)) of a rational
Floor(r) == r.num \div r.den

Ceil(r) == IF r.num % r.den = 0 THEN r.num \div r.den ELSE (r.num \div r.den) + 1

\* a plausible slip: the two weights exchanged
InterpolateSwapped(low_value, high_value, weight) ==
    RatAdd(RatMul(low_value, weight), RatMul(high_value, RatSub(RatInt(1), weight)))

\* (values_sorted[low] * (1.0 - weight)) + (values_sorted[high] * weight)
Interpolate(low_value, high_value, weight) ==
    RatAdd(RatMul(low_value, RatSub(RatInt(1), weight)), RatMul(high_value, weight))

\* rank = (p / 100.0) * (n - 1)
PercentileRank(n, p) == RatMul(Rat(p, 100), RatInt(n - 1))

\* a plausible slip: p = 100 answered with the first element
PercentileEdgeFirst(values_sorted, p) == values_sorted[1]

\* the early returns of _percentile for p <= 0 and p >= 100
PercentileEdge(values_sorted, p) ==
    IF p <= 0 THEN values_sorted[1] ELSE values_sorted[Len(values_sorted)]

\* _percentile(values_sorted, p); indices are 0-based in the source
Percentile(values_sorted, p) ==
    IF values_sorted = <<>> THEN None
    ELSE IF p <= 0 \/ p >= 100 THEN PercentileEdge(values_sorted, p)
    ELSE LET n == Len(values_sorted) IN
         IF n = 1 THEN values_sorted[1]
         ELSE LET rank == PercentileRank(n, p)
                  low == Floor(rank)
                  high == Ceil(rank)
              IN IF low = high THEN values_sorted[low + 1]
                 ELSE Interpolate(values_sorted[low + 1], values_sorted[high + 1],
                                  RatSub(rank, RatInt(low)))

\* isinstance(x, str)
IsStr(x) == x # None

\* pr_merge_lead_time_hours(pr)
PrMergeLeadTimeHours(pr) ==
    IF ~IsStr(pr.created_at) \/ ~IsStr(pr.merged_at) THEN None
    ELSE Rat(TotalSeconds(ParseGithubDatetime(pr.created_at),
                          ParseGithubDatetime(pr.merged_at)), 3600)

\* a plausible slip: negative durations kept
KeepAll(lt) == lt # None

\* the two "continue" tests of pr_merge_lead_time_summary
KeepLeadTime(lt) == lt # None /\ ~RatLt(lt, RatInt(0))

\* the loop of pr_merge_lead_time_summary collecting values
RECURSIVE CollectLeadTimes(_)
CollectLeadTimes(prs) ==
    IF prs = <<>> THEN <<>>
    ELSE LET lt == PrMergeLeadTimeHours(Head(prs))
         IN (IF KeepLeadTime(lt) THEN <<lt>> ELSE <<>>) \o CollectLeadTimes(Tail(prs))

\* values.sort()
RECURSIVE InsertAsc(_, _)
InsertAsc(sorted, v) ==
    IF sorted = <<>> THEN <<v>>
    ELSE IF RatLe(Head(sorted), v) THEN <<Head(sorted)>> \o InsertAsc(Tail(sorted), v)
         ELSE <<v>> \o sorted

\* a plausible slip: the values left in the order of the records
SortOmitted(values) == values

RECURSIVE SortAsc(_)
SortAsc(values) ==
    IF values = <<>> THEN <<>>
    ELSE InsertAsc(SortAsc(SubSeq(values, 1, Len(values) - 1)), values[Len(values)])

RECURSIVE RatSum(_)
RatSum(values) ==
    IF values = <<>> THEN RatInt(0) ELSE RatAdd(Head(values), RatSum(Tail(values)))

\* pr_merge_lead_time_summary, from the sorted values on
LeadTimeStats(values) ==
    IF values = <<>>
    THEN [count |-> 0, avg_hours |-> None, median_hours |-> None, p75_hours |-> None,
          p90_hours |-> None, min_hours |-> None, max_hours |-> None]
    ELSE [count |-> Len(values),
          avg_hours |-> RatMul(RatSum(values), Rat(1, Len(values))),
          median_hours |-> Percentile(values, 50),
          p75_hours |-> Percentile(values, 75),
          p90_hours |-> Percentile(values, 90),
          min_hours |-> values[1],
          max_hours |-> values[Len(values)]]

T0 == Stamp(2024, 3, 15, 10, 0)

Pr(created, merged) == [created_at |-> created, merged_at |-> merged]

\* created at T0 and merged h hours later the same day
PrAfter(h) == Pr(T0, Stamp(2024, 3, 15, 10 + h, 0))

PrKinds ==
    {Pr(None, Stamp(2024, 3, 15, 11, 0)), Pr(T0, None),
     PrAfter(-1), PrAfter(0), PrAfter(1), PrAfter(3), PrAfter(10),
     Pr(T0, Stamp(2024, 3, 16, 10, 30))}

ExamplePrs == <<PrAfter(3), PrAfter(1), PrAfter(10), PrAfter(2), PrAfter(4)>>

PrLists ==
    UNION {[1..n -> PrKinds] : n \in 0..MaxPrs}
    \cup {ExamplePrs, <<Pr(T0, None)>> \o ExamplePrs}

PercentilePs == {0, 10, 25, 50, 75, 90, 100}

LeadOff ==
    /\ leadPc = "off"
    /\ leadPrs = <<>>
    /\ leadValues = <<>>
    /\ leadSummary = None
    /\ leadP = 0
    /\ leadPercentile = None

LeadInit ==
    /\ leadPc = "call"
    /\ leadPrs \in PrLists
    /\ leadValues = <<>>
    /\ leadSummary = None
    /\ leadP = 0
    /\ leadPercentile = None

\* pr_merge_lead_time_summary(merged_prs)
LeadSummary ==
    /\ leadPc = "call"
    /\ LET values == SortAsc(CollectLeadTimes(leadPrs))
       IN /\ leadValues' = values
          /\ leadSummary' = LeadTimeStats(values)
    /\ leadPc' = "summarised"
    /\ UNCHANGED <<leadPrs, leadP, leadPercentile>>
    /\ UNCHANGED notLead

\* _percentile(values, p) on the sorted values, for any p in [0, 100]
LeadPercentile ==
    /\ leadPc = "summarised"
    /\ \E p \in PercentilePs :
          /\ leadP' = p
          /\ leadPercentile' = Percentile(leadValues, p)
    /\ leadPc' = "percentile"
    /\ UNCHANGED <<leadPrs, leadValues, leadSummary>>
    /\ UNCHANGED notLead

LeadNext ==
    \/ LeadSummary
    \/ LeadPercentile

(***************************************************************************)
(* Lead time: properties                                                   *)
(***************************************************************************)
IsMinOf(v, values) == v \in Range(values) /\ \A x \in Range(values) : RatLe(v, x)

IsMaxOf(v, values) == v \in Range(values) /\ \A x \in Range(values) : RatLe(x, v)

\* C3: on a non-empty sorted list _percentile(values, 0) is the minimum,
\* _percentile(values, 100) the maximum, and on a single-element list every
\* percentile is that element.
C3_PercentileEnds ==
    (leadPc = "percentile" /\ leadValues # <<>>) =>
        /\ leadP = 0 => IsMinOf(leadPercentile, leadValues)
        /\ leadP = 100 => IsMaxOf(leadPercentile, leadValues)
        /\ Len(leadValues) = 1 => leadPercentile = leadValues[1]

\* _percentile(values, 100) was taken of a list whose minimum and maximum differ
C3_Witness ==
    /\ leadPc = "percentile"
    /\ leadP = 100
    /\ Len(leadValues) >= 2
    /\ leadValues[1] # leadValues[Len(leadValues)]
    /\ leadPercentile = leadValues[Len(leadValues)]

IsExamplePrs == leadPrs = ExamplePrs

\* C4: for n >= 2 values and 0 < p < 100 the rank is p/100 * (n-1); an integer
\* rank returns values[rank], otherwise values[floor] + frac * (values[ceil] -
\* values[floor]); durations [1,2,3,4,10] give mean 4, p50 3 and p90 7.6.
C4_PercentileInterpolation ==
    /\ (leadPc = "percentile" /\ Len(leadValues) >= 2 /\ leadP > 0 /\ leadP < 100) =>
          LET q == leadP * (Len(leadValues) - 1)
              lo == q \div 100
              frac == Rat(q % 100, 100)
          IN IF q % 100 = 0
             THEN leadPercentile = leadValues[lo + 1]
             ELSE leadPercentile =
                      RatAdd(leadValues[lo + 1],
                             RatMul(frac, RatSub(leadValues[lo + 2], leadValues[lo + 1])))
    /\ (leadPc # "call" /\ IsExamplePrs) =>
          /\ leadSummary.avg_hours = RatInt(4)
          /\ leadSummary.median_hours = RatInt(3)
          /\ leadSummary.p90_hours = Rat(76, 10)

\* the interpolated p90 of the durations [1,2,3,4,10]
C4_Witness ==
    /\ leadPc = "percentile"
    /\ IsExamplePrs
    /\ leadP = 90
    /\ leadPercentile = Rat(76, 10)
    /\ leadSummary.p90_hours = Rat(76, 10)

\* merged_at is not before created_at, read off the timestamp fields
NotBefore(a, b) ==
    LET ka == <<a.year, a.month, a.day, a.hour, a.minute, a.second>>
        kb == <<b.year, b.month, b.day, b.hour, b.minute, b.second>>
    IN \/ ka = kb
       \/ \E i \in 1..6 : ka[i] < kb[i] /\ \A j \in 1..(i - 1) : ka[j] = kb[j]

\* records with both timestamps and a non-negative duration
Survivors ==
    {i \in DOMAIN leadPrs :
        /\ leadPrs[i].created_at # None
        /\ leadPrs[i].merged_at # None
        /\ NotBefore(leadPrs[i].created_at, leadPrs[i].merged_at)}

RECURSIVE SurvivorHours(_)
SurvivorHours(S) ==
    IF S = {} THEN RatInt(0)
    ELSE LET i == CHOOSE x \in S : TRUE
         IN RatAdd(PrMergeLeadTimeHours(leadPrs[i]), SurvivorHours(S \ {i}))

\* C5: the summary ignores records with a missing timestamp or a negative
\* duration: count is the number of the other records, the statistics are
\* taken over exactly those, and with none left count is 0 and all are null.
C5_LeadTimeSurvivors ==
    leadPc # "call" =>
        /\ leadSummary.count = Cardinality(Survivors)
        /\ Len(leadValues) = Cardinality(Survivors)
        /\ \A v \in Range(leadValues) \cup {PrMergeLeadTimeHours(leadPrs[i]) : i \in Survivors} :
              Cardinality({k \in DOMAIN leadValues : leadValues[k] = v})
                  = Cardinality({i \in Survivors : PrMergeLeadTimeHours(leadPrs[i]) = v})
        /\ Survivors # {} =>
              /\ IsMinOf(leadSummary.min_hours, leadValues)
              /\ IsMaxOf(leadSummary.max_hours, leadValues)
              /\ RatMul(leadSummary.avg_hours, RatInt(Cardinality(Survivors)))
                     = SurvivorHours(Survivors)
              /\ leadSummary.median_hours = Percentile(leadValues, 50)
              /\ leadSummary.p75_hours = Percentile(leadValues, 75)
              /\ leadSummary.p90_hours = Percentile(leadValues, 90)
        /\ Survivors = {} =>
              /\ leadSummary.count = 0
              /\ leadSummary.avg_hours = None
              /\ leadSummary.median_hours = None
              /\ leadSummary.p75_hours = None
              /\ leadSummary.p90_hours = None
              /\ leadSummary.min_hours = None
              /\ leadSummary.max_hours = None

\* a summary of records of which one lacks merged_at, one has a negative
\* duration and one survives
C5_Witness ==
    /\ leadPc = "summarised"
    /\ \E i \in DOMAIN leadPrs : leadPrs[i].merged_at = None
    /\ \E i \in DOMAIN leadPrs :
          /\ leadPrs[i].created_at # None
          /\ leadPrs[i].merged_at # None
          /\ ~NotBefore(leadPrs[i].created_at, leadPrs[i].merged_at)
    /\ leadSummary.count = 1
    /\ Len(leadPrs) = 3

\* every record was dropped
C5_WitnessEmpty ==
    /\ leadPc = "summarised"
    /\ leadPrs # <<>>
    /\ leadSummary.count = 0
    /\ leadSummary.avg_hours = None

\* the orders in which the records can be handed in
RecordOrders(n) == {f \in [1..n -> 1..n] : \A i \in 1..n : \E j \in 1..n : f[j] = i}

\* pr_merge_lead_time_summary on the records in the order f
SummaryOf(prs, f) ==
    LeadTimeStats(SortAsc(CollectLeadTimes([i \in DOMAIN prs |-> prs[f[i]]])))

DictGet(d, key, default) ==
    IF \E i \in DOMAIN d : d[i][1] = key
    THEN d[CHOOSE i \in DOMAIN d : d[i][1] = key][2]
    ELSE default

\* d[key] = value
DictSet(d, key, value) ==
    IF \E i \in DOMAIN d : d[i][1] = key
    THEN [i \in DOMAIN d |-> IF d[i][1] = key THEN <<key, value>> ELSE d[i]]
    ELSE Append(d, <<key, value>>)

DictKeys(d) == [i \in DOMAIN d |-> d[i][1]]

\* the inner loop of calculate_code_churn over the files of one commit
RECURSIVE ChurnFiles(_, _)
ChurnFiles(counters, files) ==
    IF files = <<>> THEN counters
    ELSE LET file == Head(files)
             filename == file.filename
         IN ChurnFiles(
                [churn |-> DictSet(counters.churn, filename,
                                   DictGet(counters.churn, filename, 0)
                                       + file.additions + file.deletions),
                 commit_count |-> DictSet(counters.commit_count, filename,
                                          DictGet(counters.commit_count, filename, 0) + 1)],
                Tail(files))

\* calculate_code_churn(commit_details)
RECURSIVE CalculateCodeChurn(_, _)
CalculateCodeChurn(counters, commit_details) ==
    IF commit_details = <<>> THEN counters
    ELSE CalculateCodeChurn(ChurnFiles(counters, Head(commit_details).files),
                            Tail(commit_details))

\* a plausible slip: OR in place of AND
IsHotspotEither(file_churn, file_commits, churn_threshold, commit_threshold) ==
    file_churn >= churn_threshold \/ file_commits >= commit_threshold

\* churn[file] >= churn_threshold and commit_count[file] >= commit_threshold
IsHotspot(file_churn, file_commits, churn_threshold, commit_threshold) ==
    file_churn >= churn_threshold /\ file_commits >= commit_threshold

\* find_hotspot_files(churn, commit_count, churn_threshold, commit_threshold)
RECURSIVE FindHotspotFiles(_, _, _, _, _)
FindHotspotFiles(keys, churn_map, count_map, churn_threshold, commit_threshold) ==
    IF keys = <<>> THEN <<>>
    ELSE LET file == Head(keys)
             c == DictGet(churn_map, file, 0)
             n == DictGet(count_map, file, 0)
         IN (IF IsHotspot(c, n, churn_threshold, commit_threshold)
             THEN <<[file |-> file, churn |-> c, commits |-> n]>>
             ELSE <<>>)
            \o FindHotspotFiles(Tail(keys), churn_map, count_map,
                                churn_threshold, commit_threshold)

Files == {"app.py", "test_app.py"}

Change(f, a, d) == [filename |-> f, additions |-> a, deletions |-> d]

\* a commit detail of the REST API
Detail(sha, date, files) ==
    [sha |-> sha, commit |-> [author |-> [date |-> date]], files |-> files]

FileLists ==
    {<<>>,
     <<Change("app.py", 0, 1)>>, <<Change("app.py", 3, 2)>>,
     <<Change("test_app.py", 1, 0)>>,
     <<Change("app.py", 0, 1), Change("test_app.py", 1, 0)>>,
     <<Change("test_app.py", 1, 0), Change("app.py", 3, 2)>>}

DetailLists ==
    UNION {{[i \in 1..n |-> Detail(i, T0, fl[i])] : fl \in [1..n -> FileLists]} :
           n \in 0..MaxDetails}

ChurnThresholds == {0, 2, 5}

CommitThresholds == {1, 2}

ChurnOff ==
    /\ churnPc = "off"
    /\ churnDetails = <<>>
    /\ churnThreshold = 0
    /\ commitThreshold = 0
    /\ churn = <<>>
    /\ commit_count = <<>>
    /\ hotspots = <<>>

ChurnInit ==
    /\ churnPc = "call"
    /\ churnDetails \in DetailLists
    /\ churnThreshold \in ChurnThresholds
    /\ commitThreshold \in CommitThresholds
    /\ churn = <<>>
    /\ commit_count = <<>>
    /\ hotspots = <<>>

\* churn, commit_count = calculate_code_churn(commit_details)
ChurnCalculate ==
    /\ churnPc = "call"
    /\ LET r == CalculateCodeChurn([churn |-> <<>>, commit_count |-> <<>>], churnDetails)
       IN /\ churn' = r.churn
          /\ commit_count' = r.commit_count
    /\ churnPc' = "churned"
    /\ UNCHANGED <<churnDetails, churnThreshold, commitThreshold, hotspots>>
    /\ UNCHANGED notChurn

\* hotspots = find_hotspot_files(churn, commit_count, ...)
ChurnHotspots ==
    /\ churnPc = "churned"
    /\ hotspots' = FindHotspotFiles(DictKeys(churn), churn, commit_count,
                                    churnThreshold, commitThreshold)
    /\ churnPc' = "done"
    /\ UNCHANGED <<churnDetails, churnThreshold, commitThreshold, churn, commit_count>>
    /\ UNCHANGED notChurn

ChurnNext ==
    \/ ChurnCalculate
    \/ ChurnHotspots

(***************************************************************************)
(* Hotspots: properties                                                    *)
(***************************************************************************)
\* the changes made to a file, as (commit index, file index) pairs
TouchesOf(f) ==
    {<<i, j>> \in (DOMAIN churnDetails) \X (1..Cardinality(Files)) :
        j \in DOMAIN churnDetails[i].files /\ churnDetails[i].files[j].filename = f}

RECURSIVE LinesChanged(_)
LinesChanged(T) ==
    IF T = {} THEN 0
    ELSE LET t == CHOOSE x \in T : TRUE
             file == churnDetails[t[1]].files[t[2]]
         IN file.additions + file.deletions + LinesChanged(T \ {t})

HotspotEntries(f) == {k \in DOMAIN hotspots : hotspots[k].file = f}

\* C6: a file is in the result of find_hotspot_files exactly when its churn
\* >= churn_threshold and its commit count >= commit_threshold; a file meeting
\* one threshold only is absent and a hotspot file is listed once.
C6_HotspotIffBoth ==
    churnPc = "done" =>
        \A f \in Files :
            /\ HotspotEntries(f) # {} <=>
                   /\ TouchesOf(f) # {}
                   /\ LinesChanged(TouchesOf(f)) >= churnThreshold
                   /\ Cardinality(TouchesOf(f)) >= commitThreshold
            /\ Cardinality(HotspotEntries(f)) <= 1
            /\ \A k \in HotspotEntries(f) :
                   /\ hotspots[k].churn = DictGet(churn, f, 0)
                   /\ hotspots[k].commits = DictGet(commit_count, f, 0)
                   /\ hotspots[k].churn = LinesChanged(TouchesOf(f))
                   /\ hotspots[k].commits = Cardinality(TouchesOf(f))

\* one file is a hotspot, another meets the commit threshold only
C6_Witness ==
    /\ churnPc = "done"
    /\ Len(hotspots) = 1
    /\ hotspots[1].file = "app.py"
    /\ DictGet(commit_count, "test_app.py", 0) >= commitThreshold
    /\ DictGet(churn, "test_app.py", 0) < churnThreshold

\* a file meets the churn threshold only and is absent
C6_WitnessChurnOnly ==
    /\ churnPc = "done"
    /\ hotspots = <<>>
    /\ DictGet(churn, "app.py", 0) >= churnThreshold
    /\ DictGet(commit_count, "app.py", 0) < commitThreshold
    /\ DictGet(commit_count, "app.py", 0) > 0

(***************************************************************************)
(* Parallel fetch of commit details and stale files                        *)
(***************************************************************************)
StaleDays == 180

\* datetime.strptime(date, "%Y-%m-%dT%H:%M:%SZ"), a naive datetime
StrpTime(str) ==
    [ord |-> Ordinal(str.year, str.month, str.day),
     sec |-> str.hour * 3600 + str.minute * 60 + str.second]

\* a < b on datetimes
Before(a, b) == a.ord < b.ord \/ (a.ord = b.ord /\ a.sec < b.sec)

\* datetime.utcnow() at the time find_stale_files runs
UtcNow == StrpTime(Stamp(2024, 9, 10, 12, 0))

\* the body of "for file in detail.get('files', [])"
RECURSIVE TouchFiles(_, _, _)
TouchFiles(dates, files, commit_time) ==
    IF files = <<>> THEN dates
    ELSE TouchFiles(DictSet(dates, Head(files).filename, commit_time),
                    Tail(files), commit_time)

\* last_date < cutoff
IsStale(last_date, cutoff) == Before(last_date, cutoff)

\* the loop of find_stale_files over commit_dates.items()
RECURSIVE StaleLoop(_, _)
StaleLoop(items, cutoff) ==
    IF items = <<>> THEN <<>>
    ELSE (IF IsStale(Head(items)[2], cutoff) THEN <<Head(items)[1]>> ELSE <<>>)
         \o StaleLoop(Tail(items), cutoff)

\* find_stale_files(commit_dates, stale_days)
FindStaleFiles(dates, stale_days) ==
    StaleLoop(dates, [ord |-> UtcNow.ord - stale_days, sec |-> UtcNow.sec])

OldDate == Stamp(2024, 1, 10, 8, 0)

RecentDate == Stamp(2024, 9, 1, 8, 0)

PoolDetailKinds ==
    {[date |-> d, files |-> fl] :
        d \in {OldDate, RecentDate},
        fl \in {<<Change("app.py", 1, 0)>>,
                <<Change("app.py", 1, 0), Change("test_app.py", 1, 0)>>}}

\* the commits handed in, each with the detail the API holds for its sha
PoolCommitLists ==
    UNION {{[i \in 1..n |-> Detail(i, k[i].date, k[i].files)] : k \in [1..n -> PoolDetailKinds]} :
           n \in 0..MaxPoolCommits}

PoolOff ==
    /\ poolPc = "off"
    /\ poolCommits = <<>>
    /\ poolMaxWorkers = 1
    /\ poolSubmitted = 0
    /\ poolQueue = <<>>
    /\ poolRunning = {}
    /\ poolFinished = <<>>
    /\ poolYielded = {}
    /\ details = <<>>
    /\ commit_dates = <<>>
    /\ stale_files = <<>>

PoolInit ==
    /\ poolPc = "pool"
    /\ poolCommits \in PoolCommitLists
    /\ poolMaxWorkers \in 1..MaxWorkers
    /\ poolSubmitted = 0
    /\ poolQueue = <<>>
    /\ poolRunning = {}
    /\ poolFinished = <<>>
    /\ poolYielded = {}
    /\ details = <<>>
    /\ commit_dates = <<>>
    /\ stale_files = <<>>

FinishedShas == {poolFinished[i][1] : i \in DOMAIN poolFinished}

\* executor.submit(fetch_commit_details, ..., c["sha"]) for the next commit
PoolSubmit ==
    /\ poolPc = "pool"
    /\ poolSubmitted < Len(poolCommits)
    /\ poolSubmitted' = poolSubmitted + 1
    /\ poolQueue' = Append(poolQueue, poolCommits[poolSubmitted + 1].sha)
    /\ UNCHANGED <<poolPc, poolCommits, poolMaxWorkers, poolRunning, poolFinished,
                   poolYielded, details, commit_dates, stale_files>>
    /\ UNCHANGED notPool

\* a plausible slip: one thread more than max_workers
WorkerFreeInclusive(running, max_workers) == Cardinality(running) <= max_workers

\* ThreadPoolExecutor(max_workers=max_workers): the pool has at most max_workers
\* threads, each running one work item at a time
WorkerFree(running, max_workers) == Cardinality(running) < max_workers

\* a worker thread of the pool takes the next work item
PoolWorkerStart ==
    /\ poolPc = "pool"
    /\ poolQueue # <<>>
    /\ WorkerFree(poolRunning, poolMaxWorkers)
    /\ poolRunning' = poolRunning \cup {Head(poolQueue)}
    /\ poolQueue' = Tail(poolQueue)
    /\ UNCHANGED <<poolPc, poolCommits, poolMaxWorkers, poolSubmitted, poolFinished,
                   poolYielded, details, commit_dates, stale_files>>
    /\ UNCHANGED notPool

\* fetch_commit_details returns in the worker: the future holds the detail
PoolWorkerReturn ==
    /\ poolPc = "pool"
    /\ \E sha \in poolRunning :
          /\ poolRunning' = poolRunning \ {sha}
          /\ poolFinished' = Append(poolFinished, <<sha, TRUE>>)
    /\ UNCHANGED <<poolPc, poolCommits, poolMaxWorkers, poolSubmitted, poolQueue,
                   poolYielded, details, commit_dates, stale_files>>
    /\ UNCHANGED notPool

\* fetch_commit_details raises in the worker: the future holds the exception
PoolWorkerRaise ==
    /\ poolPc = "pool"
    /\ \E sha \in poolRunning :
          /\ poolRunning' = poolRunning \ {sha}
          /\ poolFinished' = Append(poolFinished, <<sha, FALSE>>)
    /\ UNCHANGED <<poolPc, poolCommits, poolMaxWorkers, poolSubmitted, poolQueue,
                   poolYielded, details, commit_dates, stale_files>>
    /\ UNCHANGED notPool

\* a plausible slip: the detail appended whether or not the fetch succeeded
AppendAlways(ds, detail, ok) == Append(ds, detail)

\* "detail = future.result(); details.append(detail)": result() re-raises the
\* exception of a failed fetch, and the append is skipped
AppendResult(ds, detail, ok) == IF ok THEN Append(ds, detail) ELSE ds

\* one iteration of "for future in as_completed(futures)": the try block
PoolCollect ==
    /\ poolPc = "pool"
    /\ poolSubmitted = Len(poolCommits)
    /\ \E i \in DOMAIN poolFinished :
          LET sha == poolFinished[i][1]
              detail == poolCommits[sha]
          IN /\ sha \notin poolYielded
             /\ poolYielded' = poolYielded \cup {sha}
             /\ details' = AppendResult(details, detail, poolFinished[i][2])
             /\ IF poolFinished[i][2]
                THEN commit_dates' = TouchFiles(commit_dates, detail.files,
                                                StrpTime(detail.commit.author.date))
                ELSE UNCHANGED commit_dates
    /\ UNCHANGED <<poolPc, poolCommits, poolMaxWorkers, poolSubmitted, poolQueue,
                   poolRunning, poolFinished, stale_files>>
    /\ UNCHANGED notPool

\* every future was yielded: the with block ends, details and commit_dates return
PoolReturn ==
    /\ poolPc = "pool"
    /\ poolSubmitted = Len(poolCommits)
    /\ poolYielded = {poolCommits[i].sha : i \in DOMAIN poolCommits}
    /\ poolPc' = "returned"
    /\ UNCHANGED <<poolCommits, poolMaxWorkers, poolSubmitted, poolQueue, poolRunning,
                   poolFinished, poolYielded, details, commit_dates, stale_files>>
    /\ UNCHANGED notPool

\* run_code_quality_metrics: stale_files = find_stale_files(commit_dates)
PoolStaleFiles ==
    /\ poolPc = "returned"
    /\ stale_files' = FindStaleFiles(commit_dates, StaleDays)
    /\ poolPc' = "done"
    /\ UNCHANGED <<poolCommits, poolMaxWorkers, poolSubmitted, poolQueue, poolRunning,
                   poolFinished, poolYielded, details, commit_dates>>
    /\ UNCHANGED notPool

PoolNext ==
    \/ PoolSubmit
    \/ PoolWorkerStart
    \/ PoolWorkerReturn
    \/ PoolWorkerRaise
    \/ PoolCollect
    \/ PoolReturn
    \/ PoolStaleFiles

(***************************************************************************)
(* Stale files: properties                                                 *)
(***************************************************************************)
\* the fetched details that touch a file
DetailsTouching(f) ==
    {i \in DOMAIN details :
        \E j \in DOMAIN details[i].files : details[i].files[j].filename = f}

\* the time of the most recent fetched commit touching f
IsLatestTouch(t, f) ==
    /\ \E i \in DetailsTouching(f) : StrpTime(details[i].commit.author.date) = t
    /\ \A i \in DetailsTouching(f) : ~Before(t, StrpTime(details[i].commit.author.date))

StaleCutoff == [ord |-> UtcNow.ord - StaleDays, sec |-> UtcNow.sec]

\* C7: a file is reported stale exactly when the most recent fetched commit
\* touching it is older than the cutoff: the per-file timestamp is the maximum
\* over the commits touching the file, whatever the completion order.
C7_StaleIsLatestTouch ==
    poolPc = "done" =>
        \A f \in Files :
            DetailsTouching(f) # {} =>
                /\ IsLatestTouch(DictGet(commit_dates, f, StaleCutoff), f)
                /\ (f \in Range(stale_files)) <=>
                       (\A i \in DetailsTouching(f) :
                            Before(StrpTime(details[i].commit.author.date), StaleCutoff))

(***************************************************************************)
(* Day / week / month buckets                                              *)
(***************************************************************************)
\* "%02d"
Pad2(n) == IF n < 10 THEN "0" \o ToString(n) ELSE ToString(n)

\* date.weekday(): Monday is 0
Weekday(ord) == (ord + 6) % 7

\* ordinal of the Monday of ISO week 1 of a year
IsoWeek1Monday(y) ==
    LET firstday == Ordinal(y, 1, 1)
        firstweekday == Weekday(firstday)
        week1monday == firstday - firstweekday
    IN IF firstweekday > 3 THEN week1monday + 7 ELSE week1monday

\* d.isocalendar() as <<ISO year, ISO week, ISO weekday>>
IsoCalendar(d) ==
    LET today == d.ord
        week == (today - IsoWeek1Monday(d.year)) \div 7
        day == (today - IsoWeek1Monday(d.year)) % 7
    IN IF week < 0
       THEN LET w1 == IsoWeek1Monday(d.year - 1)
            IN <<d.year - 1, ((today - w1) \div 7) + 1, ((today - w1) % 7) + 1>>
       ELSE IF week >= 52 /\ today >= IsoWeek1Monday(d.year + 1)
            THEN <<d.year + 1, 1, day + 1>>
            ELSE <<d.year, week + 1, day + 1>>

\* d.strftime("%Y-%m-%d")
DayKey(d) == ToString(d.year) \o "-" \o Pad2(d.month) \o "-" \o Pad2(d.day)

\* a plausible slip: the weekday taken from isocalendar() in place of the week
WeekKeyOfWeekday(d) == ToString(d.year) \o "-W" \o ToString(IsoCalendar(d)[3])

\* f"{d.year}-W{d.isocalendar()[1]}"
WeekKey(d) == ToString(d.year) \o "-W" \o ToString(IsoCalendar(d)[2])

\* d.strftime("%Y-%m")
MonthKey(d) == ToString(d.year) \o "-" \o Pad2(d.month)

\* the loop of commits_per_day_week_month / merges_per_day_week_month over
\* the timestamps of the records
RECURSIVE BucketLoop(_, _)
BucketLoop(buckets, stamps) ==
    IF stamps = <<>> THEN buckets
    ELSE LET d == ParseGithubDatetime(Head(stamps))
         IN BucketLoop([per_day |-> DictIncr(buckets.per_day, DayKey(d)),
                        per_week |-> DictIncr(buckets.per_week, WeekKey(d)),
                        per_month |-> DictIncr(buckets.per_month, MonthKey(d))],
                       Tail(stamps))

EmptyBuckets == [per_day |-> <<>>, per_week |-> <<>>, per_month |-> <<>>]

\* commits_per_day_week_month(commits)
CommitsPerDayWeekMonth(commits) ==
    BucketLoop(EmptyBuckets, [i \in DOMAIN commits |-> commits[i].commit.author.date])

\* merges_per_day_week_month(merged_prs)
MergesPerDayWeekMonth(merged_prs) ==
    BucketLoop(EmptyBuckets, [i \in DOMAIN merged_prs |-> merged_prs[i].merged_at])

BucketDates ==
    {Stamp(2024, 3, 15, 10, 0), Stamp(2024, 3, 16, 23, 59), Stamp(2024, 3, 18, 0, 0),
     Stamp(2024, 4, 1, 9, 0), Stamp(2024, 1, 1, 9, 0), Stamp(2024, 12, 30, 9, 0),
     Stamp(2021, 1, 1, 9, 0)}

BucketDateLists == UNION {[1..n -> BucketDates] : n \in 0..MaxRecords}

BucketOff ==
    /\ bucketPc = "off"
    /\ bucketCommits = <<>>
    /\ bucketPrs = <<>>
    /\ commitBuckets = None
    /\ mergeBuckets = None

\* run_metrics.main: merged PRs and commits of the window, fetched beforehand
BucketInit ==
    /\ bucketPc = "call"
    /\ \E dates \in BucketDateLists :
          /\ bucketCommits = [i \in DOMAIN dates |-> [commit |-> [author |-> [date |-> dates[i]]]]]
          /\ bucketPrs = [i \in DOMAIN dates |-> Pr(T0, dates[Len(dates) + 1 - i])]
    /\ commitBuckets = None
    /\ mergeBuckets = None

\* merges_per_day, merges_per_week, merges_per_month = merges_per_day_week_month(merged_prs)
BucketMerges ==
    /\ bucketPc = "call"
    /\ mergeBuckets' = MergesPerDayWeekMonth(bucketPrs)
    /\ bucketPc' = "merges"
    /\ UNCHANGED <<bucketCommits, bucketPrs, commitBuckets>>
    /\ UNCHANGED notBucket

\* per_day, per_week, per_month = commits_per_day_week_month(commits)
BucketCommitsCall ==
    /\ bucketPc = "merges"
    /\ commitBuckets' = CommitsPerDayWeekMonth(bucketCommits)
    /\ bucketPc' = "done"
    /\ UNCHANGED <<bucketCommits, bucketPrs, mergeBuckets>>
    /\ UNCHANGED notBucket

BucketNext ==
    \/ BucketMerges
    \/ BucketCommitsCall

(***************************************************************************)
(* Buckets: properties                                                     *)
(***************************************************************************)
CountsSum(d) == SumSeq([i \in DOMAIN d |-> d[i][2]])

NoZeroBucket(d) == \A i \in DOMAIN d : d[i][2] >= 1

KeysDistinct(d) == \A i \in DOMAIN d : \A j \in DOMAIN d : d[i][1] = d[j][1] => i = j

\* the records stamped with a given calendar date
OnDate(stamps, y, mo, dd) ==
    {i \in DOMAIN stamps : stamps[i].year = y /\ stamps[i].month = mo /\ stamps[i].day = dd}

BucketsSound(buckets, stamps) ==
    /\ \A m \in {buckets.per_day, buckets.per_week, buckets.per_month} :
          /\ CountsSum(m) = Len(stamps)
          /\ NoZeroBucket(m)
          /\ KeysDistinct(m)
    /\ LET n == Cardinality(OnDate(stamps, 2024, 3, 15))
       IN n > 0 =>
             /\ DictGet(buckets.per_day, "2024-03-15", 0) = n
             /\ DictGet(buckets.per_week, "2024-W11", 0) >= n
             /\ DictGet(buckets.per_month, "2024-03", 0) >= n

\* C8: the day, week and month maps of commits_per_day_week_month and
\* merges_per_day_week_month each sum to the number of records, hold no bucket
\* of count zero, and count a record dated 2024-03-15 under 2024-03-15,
\* 2024-W11 and 2024-03.
C8_BucketSums ==
    /\ commitBuckets # None =>
          BucketsSound(commitBuckets,
                       [i \in DOMAIN bucketCommits |-> bucketCommits[i].commit.author.date])
    /\ mergeBuckets # None =>
          BucketsSound(mergeBuckets, [i \in DOMAIN bucketPrs |-> bucketPrs[i].merged_at])

\* both aggregations ran over records of which one is dated 2024-03-15 and
\* another falls in the same week and month
C8_Witness ==
    /\ bucketPc = "done"
    /\ Len(bucketCommits) = 3
    /\ DictGet(commitBuckets.per_day, "2024-03-15", 0) = 1
    /\ DictGet(commitBuckets.per_week, "2024-W11", 0) = 2
    /\ DictGet(commitBuckets.per_month, "2024-03", 0) = 3
    /\ DictGet(mergeBuckets.per_week, "2024-W11", 0) = 2
    /\ Len(commitBuckets.per_day) = 3

\* the two instants lie in the same ISO week (same ISO year and ISO week number)
SameIsoWeek(a, b) ==
    /\ IsoCalendar(a)[1] = IsoCalendar(b)[1]
    /\ IsoCalendar(a)[2] = IsoCalendar(b)[2]

\* the week bucket of every record counts exactly the records of its ISO week
WeeksAreIsoWeeks(per_week, stamps) ==
    \A i \in DOMAIN stamps :
        DictGet(per_week, WeekKey(ParseGithubDatetime(stamps[i])), 0)
            = Cardinality({j \in DOMAIN stamps :
                              SameIsoWeek(ParseGithubDatetime(stamps[i]),
                                          ParseGithubDatetime(stamps[j]))})

\* C30: in commits_per_day_week_month and merges_per_day_week_month, two
\* timestamps receive the same week key if and only if they lie in the same
\* ISO week: days around a year boundary that belong to ISO week 1 of the
\* following year (or week 52/53 of the preceding year) are not merged into
\* the bucket of a different week of their calendar year.
C30_WeekKeyIsIsoWeek ==
    /\ commitBuckets # None =>
          WeeksAreIsoWeeks(commitBuckets.per_week,
                           [i \in DOMAIN bucketCommits |-> bucketCommits[i].commit.author.date])
    /\ mergeBuckets # None =>
          WeeksAreIsoWeeks(mergeBuckets.per_week,
                           [i \in DOMAIN bucketPrs |-> bucketPrs[i].merged_at])

(***************************************************************************)
(* Paginated fetchers.  The contents of a page are abstracted to: items,   *)
(* empty, or a definitive HTTP error.  A fetcher runs from one blocking    *)
(* HTTP call to the next; the API answers in between.  Page numbers and    *)
(* request counts from PageCap on are identified (Python integers are      *)
(* unbounded).                                                             *)
(***************************************************************************)
MAX_COMMIT_PAGES == 3

PageCap == MaxBound + MaxApiPages + 2

Capped(n) == IF n < PageCap THEN n ELSE PageCap

\* what the API answers to the request of a page
ApiResponse(page) ==
    IF page = apiFailAt THEN "http_error"
    ELSE IF apiEndless \/ page <= apiNonEmpty THEN "items"
    ELSE "empty"

\* pageInfo.hasNextPage of the GraphQL answer to request number k
HasNextPage(k) == apiEndless \/ k < apiNonEmpty

\* client.get / rest_get / graphql is called for a page
IssueRequest ==
    /\ pgPc' = "waiting"
    /\ pgRequests' = Capped(pgRequests + 1)
    /\ pgAfterEmpty' = IF pgSawEmpty THEN Capped(pgAfterEmpty + 1) ELSE pgAfterEmpty

\* the fetcher returns ("done") or lets the exception escape ("raised")
Finish(how) ==
    /\ pgPc' = how
    /\ UNCHANGED <<pgRequests, pgAfterEmpty>>

\* the items of the page just answered go into the result
Collect == IF Len(pgFetched) < PageCap THEN Append(pgFetched, pgPage) ELSE pgFetched

PageFixed ==
    <<pgKind, pgBound, pgNoLimit, pgResponse, pgSawEmpty, apiNonEmpty, apiEndless, apiFailAt>>

\* the API answers the pending request
HttpAnswer ==
    /\ pgPc = "waiting"
    /\ pgResponse' = ApiResponse(pgPage)
    /\ pgSawEmpty' = (pgSawEmpty \/ ApiResponse(pgPage) = "empty")
    /\ pgPc' = "loop"
    /\ UNCHANGED <<pgKind, pgBound, pgNoLimit, pgPage, pgRequests, pgAfterEmpty, pgFetched,
                   apiNonEmpty, apiEndless, apiFailAt>>
    /\ UNCHANGED notPage

\* "if page > max_pages" / "if page > MAX_COMMIT_PAGES" / "page > page_limit"
PastBound(page, bound) == page > bound

\* fetch_all_issues: entry, or the rest of an iteration of its while-True loop
FetchAllIssuesStep ==
    /\ pgPc = "loop"
    /\ pgKind = "fetch_all_issues"
    /\ CASE pgResponse = "start" ->
                /\ IssueRequest
                /\ UNCHANGED <<pgPage, pgFetched>>
         [] pgResponse = "items" ->
                /\ pgFetched' = Collect
                /\ pgPage' = Capped(pgPage + 1)
                /\ IF PastBound(pgPage + 1, pgBound) THEN Finish("done") ELSE IssueRequest
         [] OTHER ->
                /\ Finish("done")
                /\ UNCHANGED <<pgPage, pgFetched>>
    /\ UNCHANGED PageFixed
    /\ UNCHANGED notPage

\* fetch_issue_events: entry, or the rest of an iteration of "while page <= max_pages"
FetchIssueEventsStep ==
    /\ pgPc = "loop"
    /\ pgKind = "fetch_issue_events"
    /\ CASE pgResponse = "start" ->
                /\ IF pgPage <= pgBound THEN IssueRequest ELSE Finish("done")
                /\ UNCHANGED <<pgPage, pgFetched>>
         [] pgResponse = "items" ->
                /\ pgFetched' = Collect
                /\ pgPage' = Capped(pgPage + 1)
                /\ IF pgPage + 1 <= pgBound THEN IssueRequest ELSE Finish("done")
         [] OTHER ->
                /\ Finish("done")
                /\ UNCHANGED <<pgPage, pgFetched>>
    /\ UNCHANGED PageFixed
    /\ UNCHANGED notPage

\* fetch_recent_commits: entry, or the rest of an iteration of its while-True loop
FetchRecentCommitsStep ==
    /\ pgPc = "loop"
    /\ pgKind = "fetch_recent_commits"
    /\ CASE pgResponse = "start" ->
                /\ IssueRequest
                /\ UNCHANGED <<pgPage, pgFetched>>
         [] pgResponse = "items" ->
                /\ pgFetched' = Collect
                /\ pgPage' = Capped(pgPage + 1)
                /\ IF PastBound(pgPage + 1, MAX_COMMIT_PAGES) THEN Finish("done")
                   ELSE IssueRequest
         [] OTHER ->
                /\ Finish("done")
                /\ UNCHANGED <<pgPage, pgFetched>>
    /\ UNCHANGED PageFixed
    /\ UNCHANGED notPage

\* GitHubClient.rest_get_paginated: entry, or the rest of an iteration of its loop
RestGetPaginatedStep ==
    /\ pgPc = "loop"
    /\ pgKind = "rest_get_paginated"
    /\ CASE pgResponse = "start" ->
                /\ IF ~pgNoLimit /\ PastBound(pgPage, pgBound) THEN Finish("done")
                   ELSE IssueRequest
                /\ UNCHANGED <<pgPage, pgFetched>>
         [] pgResponse = "items" ->
                /\ pgFetched' = Collect
                /\ pgPage' = Capped(pgPage + 1)
                /\ IF ~pgNoLimit /\ PastBound(pgPage + 1, pgBound) THEN Finish("done")
                   ELSE IssueRequest
         [] pgResponse = "empty" ->
                /\ Finish("done")
                /\ UNCHANGED <<pgPage, pgFetched>>
         [] OTHER ->
                /\ Finish("raised")
                /\ UNCHANGED <<pgPage, pgFetched>>
    /\ UNCHANGED PageFixed
    /\ UNCHANGED notPage

CommitLoopKinds == {"calculate_bus_factor", "calculate_bus_factor_details", "fetch_commits"}

\* the while-True commit loop of calculate_bus_factor, calculate_bus_factor_details
\* and fetch_commits: entry, or the rest of an iteration
CommitLoopStep ==
    /\ pgPc = "loop"
    /\ pgKind \in CommitLoopKinds
    /\ CASE pgResponse = "start" ->
                /\ IssueRequest
                /\ UNCHANGED <<pgPage, pgFetched>>
         [] pgResponse = "items" ->
                /\ pgFetched' = Collect
                /\ pgPage' = Capped(pgPage + 1)
                /\ IssueRequest
         [] pgResponse = "empty" ->
                /\ Finish("done")
                /\ UNCHANGED <<pgPage, pgFetched>>
         [] OTHER ->
                /\ Finish("raised")
                /\ UNCHANGED <<pgPage, pgFetched>>
    /\ UNCHANGED PageFixed
    /\ UNCHANGED notPage

\* fetch_dependabot_alerts (src/api/security.py): entry, or the rest of an
\* iteration of its while-True loop
DependabotStep ==
    /\ pgPc = "loop"
    /\ pgKind = "fetch_dependabot_alerts"
    /\ CASE pgResponse = "start" ->
                /\ IssueRequest
                /\ UNCHANGED <<pgPage, pgFetched>>
         [] pgResponse = "items" ->
                /\ pgFetched' = Collect
                /\ pgPage' = Capped(pgPage + 1)
                /\ IssueRequest
         [] OTHER ->
                /\ Finish("done")
                /\ UNCHANGED <<pgPage, pgFetched>>
    /\ UNCHANGED PageFixed
    /\ UNCHANGED notPage

\* get_exact_total_commits: entry, or the rest of an iteration of its while-True loop
TotalCommitsStep ==
    /\ pgPc = "loop"
    /\ pgKind = "get_exact_total_commits"
    /\ CASE pgResponse = "start" ->
                /\ IssueRequest
                /\ UNCHANGED <<pgPage, pgFetched>>
         [] pgResponse = "http_error" ->
                /\ Finish("raised")
                /\ UNCHANGED <<pgPage, pgFetched>>
         [] OTHER ->
                /\ pgFetched' = IF pgResponse = "items" THEN Collect ELSE pgFetched
                /\ IF HasNextPage(pgPage)
                   THEN /\ pgPage' = Capped(pgPage + 1)
                        /\ IssueRequest
                   ELSE /\ Finish("done")
                        /\ UNCHANGED pgPage
    /\ UNCHANGED PageFixed
    /\ UNCHANGED notPage

\* fetchers with a configured page bound
BoundedKinds ==
    {"fetch_all_issues", "fetch_issue_events", "fetch_recent_commits", "rest_get_paginated"}

\* fetchers whose loop is left only on an empty page (or hasNextPage = false)
OpenEndedKinds == CommitLoopKinds \cup {"fetch_dependabot_alerts", "get_exact_total_commits"}

PageOff ==
    /\ pgKind = "none"
    /\ pgPc = "off"
    /\ pgPage = 1
    /\ pgBound = 0
    /\ pgNoLimit = FALSE
    /\ pgResponse = "start"
    /\ pgRequests = 0
    /\ pgSawEmpty = FALSE
    /\ pgAfterEmpty = 0
    /\ pgFetched = <<>>
    /\ apiNonEmpty = 0
    /\ apiEndless = FALSE
    /\ apiFailAt = 0

PageInit ==
    /\ pgKind \in BoundedKinds \cup OpenEndedKinds
    /\ pgPc = "loop"
    /\ pgPage = 1
    /\ pgBound \in IF pgKind = "fetch_recent_commits" THEN {MAX_COMMIT_PAGES}
                   ELSE IF pgKind \in OpenEndedKinds THEN {0}
                   ELSE 0..MaxBound
    /\ pgNoLimit \in IF pgKind = "rest_get_paginated" THEN BOOLEAN ELSE {pgKind \in OpenEndedKinds}
    /\ pgNoLimit => pgBound = 0
    /\ pgResponse = "start"
    /\ pgRequests = 0
    /\ pgSawEmpty = FALSE
    /\ pgAfterEmpty = 0
    /\ pgFetched = <<>>
    /\ apiNonEmpty \in 0..MaxApiPages
    /\ apiEndless \in BOOLEAN
    /\ apiEndless => apiNonEmpty = 0
    /\ apiFailAt \in 0..MaxApiPages

PageNext ==
    \/ FetchAllIssuesStep
    \/ FetchIssueEventsStep
    \/ FetchRecentCommitsStep
    \/ RestGetPaginatedStep
    \/ CommitLoopStep
    \/ DependabotStep
    \/ TotalCommitsStep
    \/ HttpAnswer

(***************************************************************************)
(* Pagination: properties                                                  *)
(***************************************************************************)
PageTerminated == pgPc \in {"done", "raised"}

\* C9: a fetch with a configured page bound N issues no request after the
\* first empty page and at most N page requests in all, for every N >= 0.
C9_PageBound ==
    (pgKind \in BoundedKinds /\ ~pgNoLimit) =>
        /\ pgAfterEmpty = 0
        /\ pgRequests <= (IF pgKind = "fetch_recent_commits" THEN MAX_COMMIT_PAGES ELSE pgBound)

\* C10: every open-ended pagination loop terminates, also against an API that
\* never returns an empty page or always reports hasNextPage = true.
C10_OpenEndedLoopsTerminate ==
    (pgKind \in OpenEndedKinds) ~> PageTerminated

(***************************************************************************)
(* Retrying clients and the paginated fetches on top of them.  A response  *)
(* is one of: a 200 with items, a 200 with an empty list, a 429, a 5xx, a  *)
(* 404, a 403 with X-RateLimit-Remaining 0 (with or without a numeric      *)
(* X-RateLimit-Reset), or no response at all (Timeout, ConnectionError).   *)
(***************************************************************************)
MaxRetries == 2

RetryPages == 2

Responses ==
    {"ok_items", "ok_empty", "s429", "s5xx", "s404", "s403_rl_reset", "s403_rl_noreset",
     "timeout", "connection"}

\* requests raised instead of returning a response
IsException(r) == r \in {"timeout", "connection"}

\* resp.status_code
StatusCode(r) ==
    CASE r \in {"ok_items", "ok_empty"} -> 200
      [] r = "s429" -> 429
      [] r = "s5xx" -> 503
      [] r = "s404" -> 404
      [] OTHER -> 403

\* resp.raise_for_status() raises HTTPError
RaisesForStatus(r) == StatusCode(r) >= 400

\* response.headers.get("X-RateLimit-Remaining") == "0"
RateLimitRemainingZero(r) == r \in {"s403_rl_reset", "s403_rl_noreset"}

\* reset and reset.isdigit()
ResetIsDigit(r) == r = "s403_rl_reset"

\* the statuses _request_with_retries retries
RetriedStatuses == {429, 500, 502, 503, 504}

\* the class of the exception a failure is raised as
ExcTypeOf(r) ==
    CASE r = "timeout" -> "Timeout"
      [] r = "connection" -> "ConnectionError"
      [] OTHER -> "HTTPError"

\* a plausible slip: the last attempt not recognised
LastAttemptNever(attempt, max_retries) == attempt > max_retries

\* "if attempt >= self.max_retries"
LastAttempt(attempt, max_retries) == attempt >= max_retries

\* one iteration of the for loop of _request_with_retries: "return", "raise" or "sleep"
RequestWithRetriesOutcome(r, attempt, max_retries) ==
    IF IsException(r)
    THEN IF LastAttempt(attempt, max_retries) THEN "raise" ELSE "sleep"
    ELSE IF StatusCode(r) \in RetriedStatuses
         THEN IF LastAttempt(attempt, max_retries) THEN "raise" ELSE "sleep"
         ELSE IF RaisesForStatus(r) THEN "raise" ELSE "return"

\* one iteration of the for loop of GitHubClient.get (Sujan)
GetOutcome(r) ==
    IF IsException(r) THEN "sleep"
    ELSE IF StatusCode(r) = 403 /\ RateLimitRemainingZero(r) /\ ResetIsDigit(r) THEN "sleep"
    ELSE IF RaisesForStatus(r) THEN "raise" ELSE "return"

\* what the request log keeps of a response
ClassOf(r) == IF r = "ok_items" THEN "items" ELSE IF r = "ok_empty" THEN "empty" ELSE "fail"

\* a plausible slip: the page counter advanced by two
NextPageSkipping(page) == page + 2

\* "page += 1"
NextPage(page) == page + 1

\* the caller enters the client: rest_get / client.get
StartCall(first) ==
    /\ rtPc' = "attempt"
    /\ rtAttempt' = first
    /\ rtLastExc' = "none"
    /\ rtCallLog' = <<>>
    /\ rtCallResult' = "pending"
    /\ UNCHANGED <<rtExcType, rtExcOf>>

\* the fetch ends: it returns ("returned") or an exception escapes it ("raised")
EndFetch(how) ==
    /\ rtPc' = how
    /\ UNCHANGED <<rtAttempt, rtLastExc, rtCallLog, rtCallResult, rtExcType, rtExcOf>>

\* the client's attempt gets response r and ends as outcome says
AttemptStep(r, outcome, lastExc) ==
    /\ rtCallLog' = Append(rtCallLog, [resp |-> r, slept |-> outcome = "sleep"])
    /\ rtLog' = Append(rtLog, <<rtPage, ClassOf(r)>>)
    /\ rtLastExc' = lastExc
    /\ CASE outcome = "sleep" ->
                /\ rtAttempt' = rtAttempt + 1
                /\ UNCHANGED <<rtPc, rtCallResult, rtExcType, rtExcOf>>
         [] outcome = "raise" ->
                /\ rtPc' = "caller"
                /\ rtCallResult' = "exc"
                /\ rtExcType' = ExcTypeOf(r)
                /\ rtExcOf' = r
                /\ UNCHANGED rtAttempt
         [] OTHER ->
                /\ rtPc' = "caller"
                /\ rtCallResult' = ClassOf(r)
                /\ UNCHANGED <<rtAttempt, rtExcType, rtExcOf>>
    /\ UNCHANGED <<rtClient, rtMaxRetries, rtBound, rtPage, rtFetched>>

\* the client raises after its for loop
RaiseAfterLoop(type, of) ==
    /\ rtPc' = "caller"
    /\ rtCallResult' = "exc"
    /\ rtExcType' = type
    /\ rtExcOf' = of
    /\ UNCHANGED <<rtClient, rtMaxRetries, rtBound, rtPage, rtAttempt, rtLastExc, rtCallLog,
                   rtLog, rtFetched>>

\* GitHubClient._request_with_retries (Rohith): one attempt
RequestWithRetriesAttempt ==
    /\ rtPc = "attempt"
    /\ rtClient = "rohith"
    /\ rtAttempt <= rtMaxRetries
    /\ \E r \in Responses :
          AttemptStep(r, RequestWithRetriesOutcome(r, rtAttempt, rtMaxRetries),
                      IF IsException(r) THEN r ELSE rtLastExc)
    /\ UNCHANGED notRetry

\* GitHubClient._request_with_retries (Rohith): the code after the for loop
RequestWithRetriesAfterLoop ==
    /\ rtPc = "attempt"
    /\ rtClient = "rohith"
    /\ rtAttempt > rtMaxRetries
    /\ IF rtLastExc # "none" THEN RaiseAfterLoop(ExcTypeOf(rtLastExc), rtLastExc)
       ELSE RaiseAfterLoop("RuntimeError", "none")
    /\ UNCHANGED notRetry

\* GitHubClient.get (Sujan): one attempt
GetAttempt ==
    /\ rtPc = "attempt"
    /\ rtClient = "sujan"
    /\ rtAttempt < rtMaxRetries
    /\ \E r \in Responses :
          AttemptStep(r, GetOutcome(r), IF IsException(r) THEN r ELSE rtLastExc)
    /\ UNCHANGED notRetry

\* GitHubClient.get (Sujan): "raise last_error" after the for loop; raising None
\* is a TypeError
GetAfterLoop ==
    /\ rtPc = "attempt"
    /\ rtClient = "sujan"
    /\ rtAttempt >= rtMaxRetries
    /\ IF rtLastExc # "none" THEN RaiseAfterLoop(ExcTypeOf(rtLastExc), rtLastExc)
       ELSE RaiseAfterLoop("TypeError", "none")
    /\ UNCHANGED notRetry

\* GitHubClient.rest_get_paginated: from entry or from the return of rest_get to
\* the next call of rest_get or to the end of the generator
RetryRestGetPaginated ==
    /\ rtPc = "caller"
    /\ rtClient = "rohith"
    /\ CASE rtCallResult = "start" ->
                /\ IF rtPage > rtBound THEN EndFetch("returned") ELSE StartCall(1)
                /\ UNCHANGED <<rtPage, rtFetched>>
         [] rtCallResult = "items" ->
                /\ rtFetched' = Append(rtFetched, rtPage)
                /\ rtPage' = NextPage(rtPage)
                /\ IF NextPage(rtPage) > rtBound THEN EndFetch("returned") ELSE StartCall(1)
         [] rtCallResult = "empty" ->
                /\ EndFetch("returned")
                /\ UNCHANGED <<rtPage, rtFetched>>
         [] OTHER ->
                /\ EndFetch("raised")
                /\ UNCHANGED <<rtPage, rtFetched>>
    /\ UNCHANGED <<rtClient, rtMaxRetries, rtBound, rtLog>>
    /\ UNCHANGED notRetry

\* fetch_all_issues: from entry or from the return of client.get to the next
\* call of client.get or to "return issues"
RetryFetchAllIssues ==
    /\ rtPc = "caller"
    /\ rtClient = "sujan"
    /\ CASE rtCallResult = "start" ->
                /\ StartCall(0)
                /\ UNCHANGED <<rtPage, rtFetched>>
         [] rtCallResult = "items" ->
                /\ rtFetched' = Append(rtFetched, rtPage)
                /\ rtPage' = NextPage(rtPage)
                /\ IF NextPage(rtPage) > rtBound THEN EndFetch("returned") ELSE StartCall(0)
         [] rtCallResult = "empty" ->
                /\ EndFetch("returned")
                /\ UNCHANGED <<rtPage, rtFetched>>
         [] OTHER ->
                /\ IF rtExcType = "HTTPError" THEN EndFetch("returned") ELSE EndFetch("raised")
                /\ UNCHANGED <<rtPage, rtFetched>>
    /\ UNCHANGED <<rtClient, rtMaxRetries, rtBound, rtLog>>
    /\ UNCHANGED notRetry

RetryOff ==
    /\ rtClient = "off"
    /\ rtMaxRetries = 0
    /\ rtBound = 0
    /\ rtPc = "off"
    /\ rtPage = 1
    /\ rtAttempt = 0
    /\ rtLastExc = "none"
    /\ rtCallLog = <<>>
    /\ rtCallResult = "start"
    /\ rtExcType = "none"
    /\ rtExcOf = "none"
    /\ rtLog = <<>>
    /\ rtFetched = <<>>

RetryInit ==
    /\ rtClient \in {"rohith", "sujan"}
    /\ rtMaxRetries \in 0..MaxRetries
    /\ rtBound \in 0..RetryPages
    /\ rtPc = "caller"
    /\ rtPage = 1
    /\ rtAttempt = 0
    /\ rtLastExc = "none"
    /\ rtCallLog = <<>>
    /\ rtCallResult = "start"
    /\ rtExcType = "none"
    /\ rtExcOf = "none"
    /\ rtLog = <<>>
    /\ rtFetched = <<>>

RetryNext ==
    \/ RetryRestGetPaginated
    \/ RetryFetchAllIssues
    \/ RequestWithRetriesAttempt
    \/ RequestWithRetriesAfterLoop
    \/ GetAttempt
    \/ GetAfterLoop

(***************************************************************************)
(* Retrying clients: properties                                            *)
(***************************************************************************)
\* the client call has ended (its result is with the caller)
CallEnded == rtPc \in {"caller", "returned", "raised"} /\ rtCallResult \notin {"start", "pending"}

LastOfCall == rtCallLog[Len(rtCallLog)]

RohithTransient(r) == r \in {"s429", "s5xx", "timeout", "connection"}

\* C12: a call of _request_with_retries sends at most max_retries requests;
\* every request but the last of a call failed transiently and was followed
\* by a sleep; a transient failure before the last attempt is followed by a
\* sleep and another attempt; a call whose last attempt failed transiently
\* raises that failure; a call that returns returns a 200 response.
C12_RetryBounded ==
    rtClient = "rohith" =>
        /\ Len(rtCallLog) <= rtMaxRetries
        /\ \A i \in 1..Len(rtCallLog) :
              /\ i < Len(rtCallLog) => RohithTransient(rtCallLog[i].resp) /\ rtCallLog[i].slept
              /\ (RohithTransient(rtCallLog[i].resp) /\ i < rtMaxRetries) =>
                    /\ rtCallLog[i].slept
                    /\ i = Len(rtCallLog) => rtPc = "attempt"
        /\ (CallEnded /\ Len(rtCallLog) > 0 /\ RohithTransient(LastOfCall.resp)) =>
              /\ Len(rtCallLog) = rtMaxRetries
              /\ rtCallResult = "exc"
              /\ rtExcOf = LastOfCall.resp
              /\ rtExcType = ExcTypeOf(LastOfCall.resp)
        /\ (CallEnded /\ rtCallResult \in {"items", "empty"}) =>
              /\ Len(rtCallLog) > 0
              /\ StatusCode(LastOfCall.resp) = 200

C12_Witness ==
    /\ rtClient = "rohith"
    /\ rtMaxRetries >= 2
    /\ Len(rtCallLog) = rtMaxRetries
    /\ rtCallLog[1].resp = "s5xx"
    /\ rtCallLog[1].slept
    /\ LastOfCall.resp = "s429"
    /\ rtPc = "raised"
    /\ rtExcType = "HTTPError"

\* the conditions C13 names: timeout, connection failure, exhausted rate limit
\* (403 with X-RateLimit-Remaining 0), 5xx
SujanTransient(r) ==
    r \in {"timeout", "connection", "s403_rl_reset", "s403_rl_noreset", "s5xx"}

\* C13: in a call of GitHubClient.get (Sujan) a transient condition before the
\* last attempt is followed by a sleep and another attempt, at most max_retries
\* requests are sent, and a call whose attempts are used up raises an
\* exception that carries the failure of its last attempt.
C13_GetRetriesTransient ==
    rtClient = "sujan" =>
        /\ Len(rtCallLog) <= rtMaxRetries
        /\ \A i \in 1..Len(rtCallLog) :
              (SujanTransient(rtCallLog[i].resp) /\ i < rtMaxRetries) =>
                    /\ rtCallLog[i].slept
                    /\ i = Len(rtCallLog) => rtPc = "attempt"
        /\ (CallEnded /\ Len(rtCallLog) > 0 /\ SujanTransient(LastOfCall.resp)) =>
              /\ rtCallResult = "exc"
              /\ rtExcOf = LastOfCall.resp
              /\ rtExcType = ExcTypeOf(LastOfCall.resp)

\* a 4xx that is not a rate-limit response
Definitive(r) == r = "s404"

\* C14: a definitive error response is the last request of its client call (it
\* is not retried), the call raises it as an HTTPError, and the paginated
\* fetch does not return normally after it.
C14_DefinitiveErrorPropagates ==
    \A i \in 1..Len(rtCallLog) :
        Definitive(rtCallLog[i].resp) =>
            /\ i = Len(rtCallLog)
            /\ rtPc # "attempt"
            /\ rtCallResult = "exc"
            /\ rtExcType = "HTTPError"
            /\ rtExcOf = rtCallLog[i].resp
            /\ rtPc # "returned"

(***************************************************************************)
(* Parallel commit details: partial results                                *)
(***************************************************************************)
\* the fetch of this commit succeeded / failed
FetchSucceeded(sha) == \E i \in DOMAIN poolFinished : poolFinished[i] = <<sha, TRUE>>

FetchFailed(sha) == \E i \in DOMAIN poolFinished : poolFinished[i] = <<sha, FALSE>>

\* number of entries of details that belong to this commit
EntriesOf(sha) == Cardinality({i \in DOMAIN details : details[i].sha = sha})

DetailsAreSuccesses ==
    \A c \in DOMAIN poolCommits :
        LET sha == poolCommits[c].sha
        IN /\ FetchSucceeded(sha) \/ FetchFailed(sha)
           /\ EntriesOf(sha) = IF FetchSucceeded(sha) THEN 1 ELSE 0

\* C15: fetch_commit_details_parallel returns, whatever fetches fail and in
\* whatever order they complete, and the details it returns hold exactly one
\* entry for each commit whose fetch succeeded and none for a failed one.
C15_ParallelReturnsSuccesses ==
    <>(poolPc = "returned" /\ DetailsAreSuccesses /\ Len(details) <= Len(poolCommits))

\* two commits: the later one finished first and failed, the earlier one
\* finished after it and succeeded
C15_Witness ==
    /\ poolPc = "returned"
    /\ Len(poolCommits) = 2
    /\ poolFinished = <<<<poolCommits[2].sha, FALSE>>, <<poolCommits[1].sha, TRUE>>>>
    /\ Len(details) = 1
    /\ details[1].sha = poolCommits[1].sha

\* C22: during fetch_commit_details_parallel, at no moment are more than
\* max_workers commit-detail fetches executing concurrently, however many
\* commits are submitted.
C22_AtMostMaxWorkers ==
    /\ Cardinality(poolRunning) <= poolMaxWorkers
    /\ Cardinality(poolRunning) + Len(poolQueue) + Len(poolFinished) = poolSubmitted

\* every worker is busy while a submitted commit waits in the queue
C22_Witness ==
    /\ poolPc = "pool"
    /\ Cardinality(poolRunning) = poolMaxWorkers
    /\ poolQueue # <<>>
    /\ poolSubmitted = Len(poolCommits)

(***************************************************************************)
(* Tool entry points.  The repo argument is held as the list that          *)
(* split("/") makes of it: "owner/repo" is <<"owner", "repo">>, the URL    *)
(* "https://github.com/owner/repo" is <<"https:", "", "github.com",        *)
(* "owner", "repo">>.                                                      *)
(***************************************************************************)
RepoArgs ==
    {<<>>,
     <<"owner", "repo">>,
     <<"owner">>,
     <<"owner", "repo", "extra">>,
     <<"owner", "">>,
     <<"", "repo">>,
     <<"https:", "", "github.com", "owner", "repo">>,
     <<"https:", "", "github.com", "owner", "repo.git">>,
     <<"https:", "", "github.com", "">>,
     <<"https:", "", "github.com", "owner">>}

\* input_repo.startswith("https://github.com/")
StartsWithGithubUrl(parts) ==
    /\ Len(parts) >= 4
    /\ parts[1] = "https:"
    /\ parts[2] = ""
    /\ parts[3] = "github.com"

\* piece.replace(".git", "")
RemoveDotGit(piece) == IF piece = "repo.git" THEN "repo" ELSE piece

\* run.py: owner and repo of the argument, or "invalid" where it exits
DineshOwnerRepo(parts) ==
    IF parts = <<>> THEN <<"kubernetes", "kubernetes">>
    ELSE IF StartsWithGithubUrl(parts)
         THEN <<RemoveDotGit(parts[Len(parts) - 1]), RemoveDotGit(parts[Len(parts)])>>
         ELSE IF Len(parts) = 2 THEN <<parts[1], parts[2]>> ELSE <<"invalid">>

\* main.py: owner, repo = args.repo.split("/")
SujanOwnerRepo(parts) == IF Len(parts) = 2 THEN <<parts[1], parts[2]>> ELSE <<"invalid">>

StartupFixed == <<stEntry, stToken, stRepoArg, stCloneExists, stApiOk>>

\* the process ends with this status
Exit(status) ==
    /\ stPc' = "exited"
    /\ stExit' = status

\* config.py is imported (through github_client): no token raises RuntimeError
SujanImportConfig ==
    /\ stEntry = "sujan_main"
    /\ stPc = "import"
    /\ IF stToken THEN stPc' = "parse" /\ UNCHANGED stExit ELSE Exit("failure")
    /\ UNCHANGED <<stOwnerRepo, stNetwork, stTokenErrorCaught>>
    /\ UNCHANGED StartupFixed
    /\ UNCHANGED notStartup

\* main: parse_args and the split of --repo; a ValueError ends the process
SujanMainParse ==
    /\ stEntry = "sujan_main"
    /\ stPc = "parse"
    /\ stRepoArg # <<>>
    /\ stOwnerRepo' = SujanOwnerRepo(stRepoArg)
    /\ IF SujanOwnerRepo(stRepoArg) = <<"invalid">> THEN Exit("failure")
       ELSE stPc' = "verify" /\ UNCHANGED stExit
    /\ UNCHANGED <<stNetwork, stTokenErrorCaught>>
    /\ UNCHANGED StartupFixed
    /\ UNCHANGED notStartup

\* main: repo_data = client.get(f"/repos/{owner}/{repo}")
SujanVerifyRepo ==
    /\ stEntry = "sujan_main"
    /\ stPc = "verify"
    /\ stNetwork' = Append(stNetwork, "GET /repos")
    /\ IF stApiOk /\ stOwnerRepo = <<"owner", "repo">>
       THEN stPc' = "run" /\ UNCHANGED stExit
       ELSE Exit("failure")
    /\ UNCHANGED <<stOwnerRepo, stTokenErrorCaught>>
    /\ UNCHANGED StartupFixed
    /\ UNCHANGED notStartup

\* main: the rate-limit check and the runners of the chosen mode
SujanRun ==
    /\ stEntry = "sujan_main"
    /\ stPc = "run"
    /\ stNetwork' = Append(stNetwork, "GET /rate_limit")
    /\ Exit("success")
    /\ UNCHANGED <<stOwnerRepo, stTokenErrorCaught>>
    /\ UNCHANGED StartupFixed
    /\ UNCHANGED notStartup

\* run.py: owner and repo are determined from the argument
DineshParse ==
    /\ stEntry = "dinesh_run"
    /\ stPc = "parse"
    /\ stOwnerRepo' = DineshOwnerRepo(stRepoArg)
    /\ IF DineshOwnerRepo(stRepoArg) = <<"invalid">> THEN Exit("failure")
       ELSE stPc' = "clone" /\ UNCHANGED stExit
    /\ UNCHANGED <<stNetwork, stTokenErrorCaught>>
    /\ UNCHANGED StartupFixed
    /\ UNCHANGED notStartup

\* run.py: RepoCloner.clone_repo(owner, repo, output_dir, skip_if_exists=True)
DineshClone ==
    /\ stEntry = "dinesh_run"
    /\ stPc = "clone"
    /\ IF stCloneExists
       THEN /\ stPc' = "commits"
            /\ UNCHANGED <<stNetwork, stExit>>
       ELSE /\ stNetwork' = Append(stNetwork, "git clone")
            /\ IF stApiOk /\ stOwnerRepo \in {<<"owner", "repo">>, <<"kubernetes", "kubernetes">>}
               THEN stPc' = "commits" /\ UNCHANGED stExit
               ELSE Exit("failure")
    /\ UNCHANGED <<stOwnerRepo, stTokenErrorCaught>>
    /\ UNCHANGED StartupFixed
    /\ UNCHANGED notStartup

\* run.py: CommitsFetcher.fetch_commits inside try / except Exception; without
\* a token Auth.get_github_token raises ValueError, which the except replaces
\* by zero commit figures
DineshFetchCommits ==
    /\ stEntry = "dinesh_run"
    /\ stPc = "commits"
    /\ IF stToken
       THEN /\ stNetwork' = Append(stNetwork, "GET /commits")
            /\ UNCHANGED stTokenErrorCaught
       ELSE /\ stTokenErrorCaught' = TRUE
            /\ UNCHANGED stNetwork
    /\ stPc' = "export"
    /\ UNCHANGED <<stOwnerRepo, stExit>>
    /\ UNCHANGED StartupFixed
    /\ UNCHANGED notStartup

\* run.py: analysis and export; the script ends
DineshExport ==
    /\ stEntry = "dinesh_run"
    /\ stPc = "export"
    /\ Exit("success")
    /\ UNCHANGED <<stOwnerRepo, stNetwork, stTokenErrorCaught>>
    /\ UNCHANGED StartupFixed
    /\ UNCHANGED notStartup

StartupOff ==
    /\ stEntry = "off"
    /\ stToken = FALSE
    /\ stRepoArg = <<>>
    /\ stCloneExists = FALSE
    /\ stApiOk = FALSE
    /\ stPc = "off"
    /\ stOwnerRepo = <<>>
    /\ stNetwork = <<>>
    /\ stTokenErrorCaught = FALSE
    /\ stExit = "none"

StartupInit ==
    /\ stEntry \in {"sujan_main", "dinesh_run"}
    /\ stToken \in BOOLEAN
    /\ stRepoArg \in IF stEntry = "sujan_main" THEN RepoArgs \ {<<>>} ELSE RepoArgs
    /\ stCloneExists \in IF stEntry = "sujan_main" THEN {FALSE} ELSE BOOLEAN
    /\ stApiOk \in BOOLEAN
    /\ stPc = IF stEntry = "sujan_main" THEN "import" ELSE "parse"
    /\ stOwnerRepo = <<>>
    /\ stNetwork = <<>>
    /\ stTokenErrorCaught = FALSE
    /\ stExit = "none"

StartupNext ==
    \/ SujanImportConfig
    \/ SujanMainParse
    \/ SujanVerifyRepo
    \/ SujanRun
    \/ DineshParse
    \/ DineshClone
    \/ DineshFetchCommits
    \/ DineshExport

(***************************************************************************)
(* Tool entry points: properties                                           *)
(***************************************************************************)
\* owner/repo with both pieces present, or that behind https://github.com/
WellFormedRepo(parts) ==
    \/ parts = <<>>
    \/ /\ Len(parts) = 2
       /\ parts[1] # ""
       /\ parts[2] # ""
    \/ /\ StartsWithGithubUrl(parts)
       /\ Len(parts) = 5
       /\ parts[4] # ""
       /\ RemoveDotGit(parts[5]) # ""

FatalConfiguration ==
    /\ stEntry # "off"
    /\ ~stToken \/ ~WellFormedRepo(stRepoArg)

\* C16: with the token missing or the repository identifier malformed, no
\* network call is ever issued, the missing token is never caught as the
\* failure of one call, and the process never ends with exit status 0.
C16_FatalConfigAbortsFirst ==
    FatalConfiguration =>
        /\ stNetwork = <<>>
        /\ ~stTokenErrorCaught
        /\ stExit # "success"

(***************************************************************************)
(* Time-based aggregations over records whose timestamp may be null:       *)
(* commits_per_day_week_month, merges_per_day_week_month (Rohith) and      *)
(* issues_created_vs_closed_per_sprint, average_resolution_time_days       *)
(* (src/metrics/issue_backlog_metrics.py).  A call ends with a value or    *)
(* with an exception.                                                      *)
(***************************************************************************)
SprintDays == 14

Returned(value) == [exc |-> "none", value |-> value]

Raised(exc) == [exc |-> exc, value |-> None]

\* commits_per_day_week_month; parse_github_datetime(None) raises
\* AttributeError at date_str.endswith
CommitsPerDayWeekMonthCall(commits) ==
    IF \E i \in DOMAIN commits : commits[i].commit.author.date = None
    THEN Raised("AttributeError")
    ELSE Returned(CommitsPerDayWeekMonth(commits))

\* merges_per_day_week_month; parse_github_datetime(None) raises AttributeError
MergesPerDayWeekMonthCall(merged_prs) ==
    IF \E i \in DOMAIN merged_prs : merged_prs[i].merged_at = None
    THEN Raised("AttributeError")
    ELSE Returned(MergesPerDayWeekMonth(merged_prs))

\* datetime a < datetime b
DatetimeLt(a, b) == a.ord < b.ord \/ (a.ord = b.ord /\ a.sec < b.sec)

\* min(i["created_at"] for i in issues if i["created_at"])
MinCreatedAt(issues) ==
    LET dates == {issues[i].created_at : i \in {j \in DOMAIN issues : issues[j].created_at # None}}
    IN CHOOSE m \in dates : \A d \in dates : ~DatetimeLt(d, m)

\* a plausible slip: whole calendar days between the two dates, the time of day ignored
SprintStartDateByDate(t, sprint_start_date, sprint_days) ==
    sprint_start_date.ord + ((t.ord - sprint_start_date.ord) \div sprint_days) * sprint_days

\* (t - sprint_start_date).days // sprint_days, and from it the date of
\* sprint_start_date + timedelta(days=sprint_index * sprint_days), as an ordinal
SprintStartDate(t, sprint_start_date, sprint_days) ==
    LET days_since_start == TotalSeconds(sprint_start_date, t) \div 86400
        sprint_index == days_since_start \div sprint_days
    IN sprint_start_date.ord + sprint_index * sprint_days

\* the loop of issues_created_vs_closed_per_sprint over issues with a created_at
RECURSIVE SprintLoop(_, _, _, _, _)
SprintLoop(created, closed, issues, sprint_start_date, sprint_days) ==
    IF issues = <<>> THEN [created |-> created, closed |-> closed]
    ELSE LET issue == Head(issues)
             created2 == DictIncr(created,
                                  SprintStartDate(issue.created_at, sprint_start_date, sprint_days))
             closed2 == IF issue.closed_at # None
                        THEN DictIncr(closed,
                                      SprintStartDate(issue.closed_at, sprint_start_date, sprint_days))
                        ELSE closed
         IN SprintLoop(created2, closed2, Tail(issues), sprint_start_date, sprint_days)

\* issues_created_vs_closed_per_sprint(issues): min() of no date raises
\* ValueError, None - datetime raises TypeError
IssuesCreatedVsClosedPerSprint(issues) ==
    IF \A i \in DOMAIN issues : issues[i].created_at = None THEN Raised("ValueError")
    ELSE IF \E i \in DOMAIN issues : issues[i].created_at = None THEN Raised("TypeError")
    ELSE Returned(SprintLoop(<<>>, <<>>, issues, MinCreatedAt(issues), SprintDays))

\* round(x, 2), ties to even, as hundredths
Round2(x) ==
    LET scaled == RatMul(x, RatInt(100))
        f == Floor(scaled)
        twice == RatMul(RatSub(scaled, RatInt(f)), RatInt(2))
        n == IF RatLt(RatInt(1), twice) THEN f + 1
             ELSE IF RatLt(twice, RatInt(1)) THEN f
             ELSE IF f % 2 = 0 THEN f ELSE f + 1
    IN Rat(n, 100)

\* the issues whose duration average_resolution_time_days takes
IsResolved(issue) == issue.state = "closed" /\ issue.closed_at # None

\* durations, in seconds / 86400
RECURSIVE Durations(_)
Durations(issues) ==
    IF issues = <<>> THEN <<>>
    ELSE IF IsResolved(Head(issues))
         THEN <<Rat(TotalSeconds(Head(issues).created_at, Head(issues).closed_at), 86400)>>
              \o Durations(Tail(issues))
         ELSE Durations(Tail(issues))

\* average_resolution_time_days(issues): datetime - None raises TypeError
AverageResolutionTimeDays(issues) ==
    IF \E i \in DOMAIN issues : IsResolved(issues[i]) /\ issues[i].created_at = None
    THEN Raised("TypeError")
    ELSE LET durations == Durations(issues)
         IN IF durations = <<>> THEN Returned(RatInt(0))
            ELSE Returned(Round2(RatMul(RatSum(durations), Rat(1, Len(durations)))))

\* the timestamps the records carry: null, or one of three instants
AggStamps == {None, Stamp(2024, 3, 15, 10, 0), Stamp(2024, 3, 16, 23, 59), Stamp(2024, 4, 1, 9, 0)}

\* parse_date of normalize_issue: null stays None
ParseDate(value) == IF value = None THEN None ELSE ParseGithubDatetime(value)

AggIssues ==
    {[state |-> s, created_at |-> ParseDate(c), closed_at |-> ParseDate(k)] :
        s \in {"open", "closed"}, c \in {None, Stamp(2024, 3, 15, 10, 0), Stamp(2024, 3, 16, 23, 59)},
        k \in {None, Stamp(2024, 4, 1, 9, 0)}}

AggInputs(fn) ==
    CASE fn = "commits_per_day_week_month" ->
             UNION {{[i \in 1..n |-> [commit |-> [author |-> [date |-> d[i]]]]] :
                        d \in [1..n -> AggStamps]} : n \in 0..MaxRecords}
      [] fn = "merges_per_day_week_month" ->
             UNION {{[i \in 1..n |-> Pr(T0, d[i])] : d \in [1..n -> AggStamps]} :
                    n \in 0..MaxRecords}
      [] OTHER -> UNION {[1..n -> AggIssues] : n \in 0..(MaxRecords - 1)}

AggFns ==
    {"commits_per_day_week_month", "merges_per_day_week_month",
     "issues_created_vs_closed_per_sprint", "average_resolution_time_days"}

\* the call ends with this outcome
AggEnd(outcome) ==
    /\ aggPc' = IF outcome.exc = "none" THEN "returned" ELSE "raised"
    /\ aggResult' = outcome.value
    /\ aggExc' = outcome.exc
    /\ UNCHANGED <<aggFn, aggRecords>>

AggCommitsPerDayWeekMonth ==
    /\ aggPc = "call"
    /\ aggFn = "commits_per_day_week_month"
    /\ AggEnd(CommitsPerDayWeekMonthCall(aggRecords))
    /\ UNCHANGED notAgg

AggMergesPerDayWeekMonth ==
    /\ aggPc = "call"
    /\ aggFn = "merges_per_day_week_month"
    /\ AggEnd(MergesPerDayWeekMonthCall(aggRecords))
    /\ UNCHANGED notAgg

AggIssuesPerSprint ==
    /\ aggPc = "call"
    /\ aggFn = "issues_created_vs_closed_per_sprint"
    /\ AggEnd(IssuesCreatedVsClosedPerSprint(aggRecords))
    /\ UNCHANGED notAgg

AggAverageResolutionTime ==
    /\ aggPc = "call"
    /\ aggFn = "average_resolution_time_days"
    /\ AggEnd(AverageResolutionTimeDays(aggRecords))
    /\ UNCHANGED notAgg

AggOff ==
    /\ aggFn = "none"
    /\ aggRecords = <<>>
    /\ aggPc = "off"
    /\ aggResult = None
    /\ aggExc = "none"

AggInit ==
    /\ aggFn \in AggFns
    /\ aggRecords \in AggInputs(aggFn)
    /\ aggPc = "call"
    /\ aggResult = None
    /\ aggExc = "none"

AggNext ==
    \/ AggCommitsPerDayWeekMonth
    \/ AggMergesPerDayWeekMonth
    \/ AggIssuesPerSprint
    \/ AggAverageResolutionTime

(***************************************************************************)
(* Aggregations over null timestamps: properties                           *)
(***************************************************************************)
\* the timestamp an aggregation buckets a record by is null
NullStamped(fn, rec) ==
    CASE fn = "commits_per_day_week_month" -> rec.commit.author.date = None
      [] fn = "merges_per_day_week_month" -> rec.merged_at = None
      [] fn = "issues_created_vs_closed_per_sprint" -> rec.created_at = None
      [] OTHER -> rec.created_at = None \/ rec.closed_at = None

\* the records that remain when those with a null timestamp are left out
RemainingRecords(fn, recs) == SelectSeq(recs, LAMBDA rec : ~NullStamped(fn, rec))

\* what the aggregation yields over the remaining records
OverRemaining(fn, recs) ==
    LET rest == RemainingRecords(fn, recs)
    IN CASE fn = "commits_per_day_week_month" -> CommitsPerDayWeekMonth(rest)
         [] fn = "merges_per_day_week_month" -> MergesPerDayWeekMonth(rest)
         [] fn = "issues_created_vs_closed_per_sprint" ->
                IF rest = <<>> THEN [created |-> <<>>, closed |-> <<>>]
                ELSE SprintLoop(<<>>, <<>>, rest, MinCreatedAt(rest), SprintDays)
         [] OTHER -> AverageResolutionTimeDays(rest).value

\* C17: every time-based aggregation completes when records carry a null
\* timestamp, and its result is that over the remaining records: a record
\* with a null timestamp is in no bucket.
C17_NullTimestampSkipped ==
    aggPc \in {"returned", "raised"} =>
        /\ aggPc = "returned"
        /\ aggResult = OverRemaining(aggFn, aggRecords)

(***************************************************************************)
(* Export steps.  An output file is writable ("ok"), exists and is locked  *)
(* (open raises PermissionError) or cannot be created (open raises another *)
(* OSError).                                                               *)
(***************************************************************************)
\* the export steps of a pipeline, in program order
ExportSteps(pipeline) ==
    CASE pipeline = "dinesh_run" -> <<"CSVExporter.export", "PDFExporter.export">>
      [] pipeline = "run_code_quality_metrics" ->
             <<"write_key_value_csv", "write_time_series_csv", "write_time_series_csv">>
      [] pipeline = "run_metrics_main" -> <<"csv_block", "csv_block", "csv_block", "pdf">>
      [] OTHER -> <<>>

IsCsvStep(step) == step \notin {"PDFExporter.export", "pdf"}

\* open(path, "w") raises for this file
OpenRaises(file) == file # "ok"

ExportFixed == <<exPipeline, exFiles>>

\* the step at exIndex wrote its file, or its error was caught: the pipeline goes on
ExportContinue(wrote) ==
    /\ exWritten' = IF wrote THEN exWritten \cup {exIndex} ELSE exWritten
    /\ exSkipped' = IF wrote THEN exSkipped ELSE exSkipped \cup {exIndex}
    /\ exIndex' = exIndex + 1
    /\ exPc' = IF exIndex = Len(ExportSteps(exPipeline)) THEN "finished" ELSE "run"

\* the exception of the step at exIndex leaves the pipeline
ExportAbort ==
    /\ exPc' = "aborted"
    /\ UNCHANGED <<exIndex, exWritten, exSkipped>>

StepIs(name) ==
    /\ exPc = "run"
    /\ exIndex <= Len(ExportSteps(exPipeline))
    /\ ExportSteps(exPipeline)[exIndex] = name

\* CSVExporter.export: PermissionError of the probe returns, any other
\* exception is caught by "except Exception"
CsvExporterExport ==
    /\ StepIs("CSVExporter.export")
    /\ ExportContinue(~OpenRaises(exFiles[exIndex]))
    /\ UNCHANGED ExportFixed
    /\ UNCHANGED notExport

\* write_key_value_csv: no handler, and none in its callers
WriteKeyValueCsv ==
    /\ StepIs("write_key_value_csv")
    /\ IF OpenRaises(exFiles[exIndex]) THEN ExportAbort ELSE ExportContinue(TRUE)
    /\ UNCHANGED ExportFixed
    /\ UNCHANGED notExport

\* write_time_series_csv: no handler, and none in its callers
WriteTimeSeriesCsv ==
    /\ StepIs("write_time_series_csv")
    /\ IF OpenRaises(exFiles[exIndex]) THEN ExportAbort ELSE ExportContinue(TRUE)
    /\ UNCHANGED ExportFixed
    /\ UNCHANGED notExport

\* run_metrics.main: one "with open(..., mode='w') as f: writer..." block
RunMetricsCsvBlock ==
    /\ StepIs("csv_block")
    /\ IF OpenRaises(exFiles[exIndex]) THEN ExportAbort ELSE ExportContinue(TRUE)
    /\ UNCHANGED ExportFixed
    /\ UNCHANGED notExport

\* PDFExporter.export / write_repository_activity_pdf
PdfExport ==
    /\ StepIs("PDFExporter.export") \/ StepIs("pdf")
    /\ ExportContinue(TRUE)
    /\ UNCHANGED ExportFixed
    /\ UNCHANGED notExport

ExportOff ==
    /\ exPipeline = "off"
    /\ exFiles = <<>>
    /\ exIndex = 1
    /\ exWritten = {}
    /\ exSkipped = {}
    /\ exPc = "off"

ExportInit ==
    /\ exPipeline \in {"dinesh_run", "run_code_quality_metrics", "run_metrics_main"}
    /\ exFiles \in [1..Len(ExportSteps(exPipeline)) -> {"ok", "locked", "unwritable"}]
    /\ \A i \in DOMAIN exFiles : ~IsCsvStep(ExportSteps(exPipeline)[i]) => exFiles[i] = "ok"
    /\ exIndex = 1
    /\ exWritten = {}
    /\ exSkipped = {}
    /\ exPc = "run"

ExportNext ==
    \/ CsvExporterExport
    \/ WriteKeyValueCsv
    \/ WriteTimeSeriesCsv
    \/ RunMetricsCsvBlock
    \/ PdfExport

(***************************************************************************)
(* Export steps: properties                                                *)
(***************************************************************************)
\* C18: a failing write of one CSV file is caught and that step alone is
\* skipped: no exception leaves the pipeline, every step before the current
\* one either wrote its file or, its file failing, was skipped, and the
\* pipeline runs to its last step.
C18_WriteErrorSkipsStepOnly ==
    /\ exPc # "aborted"
    /\ \A i \in 1..(exIndex - 1) :
          IF OpenRaises(exFiles[i]) THEN i \in exSkipped /\ i \notin exWritten
          ELSE i \in exWritten /\ i \notin exSkipped

(***************************************************************************)
(* Waits between the attempts of GitHubClient._request_with_retries.  The  *)
(* Retry-After header of a response is absent, a string of digits, or      *)
(* another string (an HTTP date); random.uniform(0.0, 0.25) is one of the  *)
(* two end points or the middle of its range.                              *)
(***************************************************************************)
MaxBackoffRetries == 3

\* resp.headers.get("Retry-After")
RetryAfterHeaders ==
    {[present |-> FALSE, digits |-> FALSE, value |-> 0],
     [present |-> TRUE, digits |-> TRUE, value |-> 0],
     [present |-> TRUE, digits |-> TRUE, value |-> 3],
     [present |-> TRUE, digits |-> FALSE, value |-> 0]}

\* exceptions carry no response, hence no header
NoHeader == [present |-> FALSE, digits |-> FALSE, value |-> 0]

\* "retry_after and retry_after.isdigit()"
RetryAfterIsDigit(h) == h.present /\ h.digits

\* random.uniform(0.0, 0.25)
JitterValues == {Rat(0, 1), Rat(1, 8), Rat(1, 4)}

\* self.backoff_seconds (default 1.0)
BackoffSeconds == {Rat(1, 2), Rat(1, 1)}

RECURSIVE Pow2(_)
Pow2(n) == IF n <= 0 THEN 1 ELSE 2 * Pow2(n - 1)

\* a plausible slip: the exponent not reduced by one
BackoffDelayFromTwo(backoff, attempt, jitter) ==
    RatAdd(RatMul(backoff, RatInt(Pow2(attempt))), jitter)

\* "(self.backoff_seconds * (2 ** (attempt - 1))) + random.uniform(0.0, 0.25)"
BackoffDelay(backoff, attempt, jitter) ==
    RatAdd(RatMul(backoff, RatInt(Pow2(attempt - 1))), jitter)

\* sleep_seconds of one failed attempt that is retried
SleepSeconds(r, h, backoff, attempt, jitter) ==
    IF ~IsException(r) /\ RetryAfterIsDigit(h)
    THEN RatInt(h.value)
    ELSE BackoffDelay(backoff, attempt, jitter)

\* _request_with_retries: one iteration of "for attempt in range(1, max_retries + 1)"
BackoffAttempt ==
    /\ boPc = "loop"
    /\ boAttempt <= boMaxRetries
    /\ \E r \in Responses, h \in RetryAfterHeaders, jitter \in JitterValues :
          LET outcome == RequestWithRetriesOutcome(r, boAttempt, boMaxRetries)
              header == IF IsException(r) THEN NoHeader ELSE h
          IN  CASE outcome = "sleep" ->
                      /\ boSleeps' = Append(boSleeps,
                                        [attempt |-> boAttempt,
                                         seconds |-> SleepSeconds(r, header, boBackoff,
                                                                  boAttempt, jitter),
                                         resp |-> r,
                                         retry_after |-> header])
                      /\ boAttempt' = boAttempt + 1
                      /\ UNCHANGED boPc
                [] outcome = "raise" ->
                      /\ boPc' = "raised"
                      /\ UNCHANGED <<boSleeps, boAttempt>>
                [] OTHER ->
                      /\ boPc' = "returned"
                      /\ UNCHANGED <<boSleeps, boAttempt>>
    /\ UNCHANGED <<boMaxRetries, boBackoff>>
    /\ UNCHANGED notBackoff

\* _request_with_retries: the code after the for loop (reached with max_retries <= 0)
BackoffAfterLoop ==
    /\ boPc = "loop"
    /\ boAttempt > boMaxRetries
    /\ boPc' = "raised"
    /\ UNCHANGED <<boMaxRetries, boBackoff, boAttempt, boSleeps>>
    /\ UNCHANGED notBackoff

BackoffOff ==
    /\ boMaxRetries = 0
    /\ boBackoff = RatInt(1)
    /\ boAttempt = 0
    /\ boSleeps = <<>>
    /\ boPc = "off"

BackoffInit ==
    /\ boMaxRetries \in 0..MaxBackoffRetries
    /\ boBackoff \in BackoffSeconds
    /\ boAttempt = 1
    /\ boSleeps = <<>>
    /\ boPc = "loop"

BackoffNext ==
    \/ BackoffAttempt
    \/ BackoffAfterLoop

(***************************************************************************)
(* Waits between attempts: properties                                      *)
(***************************************************************************)
\* the wait s is the doubled base delay of its attempt plus a jitter in [0, 0.25]
IsBackoffWait(s) ==
    LET base == RatMul(boBackoff, RatInt(Pow2(s.attempt - 1)))
    IN  /\ RatLe(base, s.seconds)
        /\ RatLe(s.seconds, RatAdd(base, Rat(1, 4)))

\* the waits follow the attempts 1, 2, ... and none follows the final attempt
WaitsBetweenAttempts ==
    \A i \in DOMAIN boSleeps : boSleeps[i].attempt = i /\ boSleeps[i].attempt < boMaxRetries

\* C21 (amended): the wait after failed attempt k is the number of seconds of
\* the response's Retry-After header when a retried 429/5xx response carries
\* one made of digits, and otherwise backoff_seconds * 2^(k-1) plus a jitter
\* between 0 and 0.25 seconds; no wait is performed after the final attempt.
C21_BackoffOrRetryAfter ==
    /\ WaitsBetweenAttempts
    /\ \A i \in DOMAIN boSleeps :
          LET s == boSleeps[i]
          IN  IF ~IsException(s.resp) /\ s.retry_after.present /\ s.retry_after.digits
              THEN s.seconds = RatInt(s.retry_after.value)
              ELSE IsBackoffWait(s)

\* a call whose two waits are backoff delays: the second base delay is twice the first,
\* and the third attempt, the final one, is not followed by a wait
C21_Witness ==
    /\ boMaxRetries = 3
    /\ boPc = "raised"
    /\ Len(boSleeps) = 2
    /\ boBackoff = RatInt(1)
    /\ boSleeps[1].resp = "timeout" /\ boSleeps[1].seconds = Rat(9, 8)
    /\ boSleeps[2].resp = "s5xx" /\ ~boSleeps[2].retry_after.present
    /\ boSleeps[2].seconds = Rat(9, 4)

\* C21 (as stated): the wait before the retry that follows failed attempt k is,
\* for every transient condition, backoff_seconds * 2^(k-1) plus a jitter
\* between 0 and 0.25 seconds, and no wait is performed after the final attempt.
C21_BackoffDoubles ==
    /\ WaitsBetweenAttempts
    /\ \A i \in DOMAIN boSleeps : IsBackoffWait(boSleeps[i])

(***************************************************************************)
(* "Most recent buckets" tables of the PDF report.  sorted() compares the  *)
(* keys as Python strings, by code point; a key is held here with its text *)
(* and its code points.                                                    *)
(***************************************************************************)
MaxTail == 2

MaxTailRecords == 3

RecentWeeks == 12

\* the code points of str(n), n >= 0
RECURSIVE Digits(_)
Digits(n) == IF n < 10 THEN <<48 + n>> ELSE Digits(n \div 10) \o <<48 + (n % 10)>>

\* the code points of "%02d" % n
Pad2Codes(n) == IF n < 10 THEN <<48>> \o Digits(n) ELSE Digits(n)

\* the code points of the day, week and month key of d ("-" is 45, "W" is 87)
KeyCodes(kind, d) ==
    CASE kind = "day" -> Digits(d.year) \o <<45>> \o Pad2Codes(d.month) \o <<45>> \o Pad2Codes(d.day)
      [] kind = "week" -> Digits(d.year) \o <<45, 87>> \o Digits(IsoCalendar(d)[2])
      [] OTHER -> Digits(d.year) \o <<45>> \o Pad2Codes(d.month)

\* the text of the day, week and month key of d
KeyText(kind, d) ==
    CASE kind = "day" -> DayKey(d)
      [] kind = "week" -> WeekKey(d)
      [] OTHER -> MonthKey(d)

\* a < b on Python strings
RECURSIVE StrLt(_, _)
StrLt(a, b) ==
    IF b = <<>> THEN FALSE
    ELSE IF a = <<>> THEN TRUE
    ELSE IF Head(a) # Head(b) THEN Head(a) < Head(b)
    ELSE StrLt(Tail(a), Tail(b))

\* mapping.keys(): each key of the mapping with the code points of its text
MappingKeys(mapping, kind, stamps) ==
    [i \in DOMAIN mapping |->
        LET d == ParseGithubDatetime(CHOOSE s \in Range(stamps) :
                                        KeyText(kind, ParseGithubDatetime(s)) = mapping[i][1])
        IN [text |-> mapping[i][1], codes |-> KeyCodes(kind, d)]]

RECURSIVE InsertKey(_, _)
InsertKey(sorted, k) ==
    IF sorted = <<>> THEN <<k>>
    ELSE IF StrLt(k.codes, Head(sorted).codes) THEN <<k>> \o sorted
    ELSE <<Head(sorted)>> \o InsertKey(Tail(sorted), k)

\* sorted(mapping.keys())
RECURSIVE SortedKeys(_)
SortedKeys(keys) ==
    IF keys = <<>> THEN <<>>
    ELSE InsertKey(SortedKeys(SubSeq(keys, 1, Len(keys) - 1)), keys[Len(keys)])

\* keys[-n:], n >= 1
LastKeys(keys, n) == IF Len(keys) <= n THEN keys ELSE SubSeq(keys, Len(keys) - n + 1, Len(keys))

\* tail_items(mapping, n)
TailItems(mapping, kind, stamps, n) ==
    LET keys == LastKeys(SortedKeys(MappingKeys(mapping, kind, stamps)), n)
    IN [i \in DOMAIN keys |-> <<keys[i].text, ToString(DictGet(mapping, keys[i].text, 0))>>]

\* the commits of the report, as commit objects
TailCommits == [i \in DOMAIN tlStamps |-> [commit |-> [author |-> [date |-> tlStamps[i]]]]]

TailDates ==
    {Stamp(2024, 2, 26, 9, 0), Stamp(2024, 3, 4, 9, 0), Stamp(2024, 3, 15, 10, 0),
     Stamp(2023, 12, 4, 9, 0), Stamp(2024, 10, 7, 9, 0)}

TailSizes == (1..MaxTail) \cup {RecentWeeks}

\* day_table: tail_items(per_day, 14)
TailDayTable ==
    /\ tlPc = "day"
    /\ tlDayTable' = TailItems(CommitsPerDayWeekMonth(TailCommits).per_day, "day", tlStamps, tlN)
    /\ tlPc' = "week"
    /\ UNCHANGED <<tlStamps, tlN, tlWeekTable, tlMonthTable>>
    /\ UNCHANGED notTail

\* week_table: tail_items(per_week, 12)
TailWeekTable ==
    /\ tlPc = "week"
    /\ tlWeekTable' = TailItems(CommitsPerDayWeekMonth(TailCommits).per_week, "week", tlStamps, tlN)
    /\ tlPc' = "month"
    /\ UNCHANGED <<tlStamps, tlN, tlDayTable, tlMonthTable>>
    /\ UNCHANGED notTail

\* month_table: tail_items(per_month, 12)
TailMonthTable ==
    /\ tlPc = "month"
    /\ tlMonthTable' = TailItems(CommitsPerDayWeekMonth(TailCommits).per_month, "month", tlStamps, tlN)
    /\ tlPc' = "done"
    /\ UNCHANGED <<tlStamps, tlN, tlDayTable, tlWeekTable>>
    /\ UNCHANGED notTail

TailOff ==
    /\ tlStamps = <<>>
    /\ tlN = 1
    /\ tlDayTable = <<>>
    /\ tlWeekTable = <<>>
    /\ tlMonthTable = <<>>
    /\ tlPc = "off"

TailInit ==
    /\ tlStamps \in UNION {[1..k -> TailDates] : k \in 0..MaxTailRecords}
    /\ tlN \in TailSizes
    /\ tlDayTable = <<>>
    /\ tlWeekTable = <<>>
    /\ tlMonthTable = <<>>
    /\ tlPc = "day"

TailNext ==
    \/ TailDayTable
    \/ TailWeekTable
    \/ TailMonthTable

(***************************************************************************)
(* Most recent buckets: properties                                         *)
(***************************************************************************)
\* the period a bucket of d stands for, as numbers
Period(kind, d) ==
    CASE kind = "day" -> <<d.year, d.month, d.day>>
      [] kind = "week" -> <<d.year, IsoCalendar(d)[2], 0>>
      [] OTHER -> <<d.year, d.month, 0>>

PeriodLt(p, q) ==
    \/ p[1] < q[1]
    \/ p[1] = q[1] /\ p[2] < q[2]
    \/ p[1] = q[1] /\ p[2] = q[2] /\ p[3] < q[3]

\* the periods of the buckets of the mapping, and the period behind a key
PeriodsOf(kind) == {Period(kind, ParseGithubDatetime(s)) : s \in Range(tlStamps)}

PeriodOfKey(kind, text) ==
    Period(kind, ParseGithubDatetime(CHOOSE s \in Range(tlStamps) :
                                        KeyText(kind, ParseGithubDatetime(s)) = text))

\* the table holds the n chronologically latest buckets, in chronological order,
\* each with the count of its bucket
IsRecentTable(table, kind) ==
    LET shown == {PeriodOfKey(kind, table[i][1]) : i \in DOMAIN table}
    IN  /\ Len(table) = Min2(tlN, Cardinality(PeriodsOf(kind)))
        /\ \A i \in DOMAIN table : \A j \in DOMAIN table :
              i < j => PeriodLt(PeriodOfKey(kind, table[i][1]), PeriodOfKey(kind, table[j][1]))
        /\ \A p \in PeriodsOf(kind) \ shown : \A q \in shown : PeriodLt(p, q)
        /\ \A i \in DOMAIN table :
              table[i][2] = ToString(Cardinality({k \in DOMAIN tlStamps :
                                Period(kind, ParseGithubDatetime(tlStamps[k]))
                                    = PeriodOfKey(kind, table[i][1])}))

\* C23: the "most recent buckets" tables of the PDF report contain the n
\* chronologically latest buckets present in the mapping, listed in
\* chronological order, for day keys, week keys and month keys alike.
C23_RecentBuckets ==
    tlPc = "done" =>
        /\ IsRecentTable(tlDayTable, "day")
        /\ IsRecentTable(tlMonthTable, "month")
        /\ IsRecentTable(tlWeekTable, "week")

(***************************************************************************)
(* issues_created_vs_closed_per_sprint of Sujan/src: issues without a      *)
(* created_at are skipped.  The keys of the result are dates, held as      *)
(* ordinals.                                                               *)
(***************************************************************************)
MaxSprintDays == 2

MaxSprintIssues == 2

\* "if not created_at: continue"
HasCreatedAt(issue) == issue.created_at # None

\* issues_created_vs_closed_per_sprint(issues, sprint_start_date, sprint_days) (Sujan)
SujanIssuesCreatedVsClosedPerSprint(issues, sprint_start_date, sprint_days) ==
    LET valid == SelectSeq(issues, HasCreatedAt)
    IN  IF issues = <<>> THEN [created |-> <<>>, closed |-> <<>>]
        ELSE IF sprint_start_date = None /\ valid = <<>> THEN [created |-> <<>>, closed |-> <<>>]
        ELSE LET start == IF sprint_start_date = None THEN MinCreatedAt(issues)
                          ELSE sprint_start_date
             IN SprintLoop(<<>>, <<>>, valid, start, sprint_days)

SprintStamps ==
    {Stamp(2024, 3, 15, 10, 0), Stamp(2024, 3, 29, 9, 59), Stamp(2024, 3, 29, 10, 0),
     Stamp(2024, 3, 1, 9, 0)}

SprintIssues ==
    {[state |-> IF k = None THEN "open" ELSE "closed",
      created_at |-> ParseDate(c), closed_at |-> ParseDate(k)] :
        c \in SprintStamps \cup {None}, k \in {None, Stamp(2024, 4, 1, 9, 0)}}

\* run_issue_metrics: sprint = issues_created_vs_closed_per_sprint(issues)
SprintCall ==
    /\ spPc = "call"
    /\ spResult' = SujanIssuesCreatedVsClosedPerSprint(spIssues, spStart, spDays)
    /\ spPc' = "returned"
    /\ UNCHANGED <<spIssues, spStart, spDays>>
    /\ UNCHANGED notSprint

SprintOff ==
    /\ spIssues = <<>>
    /\ spStart = None
    /\ spDays = SprintDays
    /\ spResult = None
    /\ spPc = "off"

SprintInit ==
    /\ spIssues \in UNION {[1..n -> SprintIssues] : n \in 0..MaxSprintIssues}
    /\ spStart \in {None, ParseDate(Stamp(2024, 3, 15, 10, 0)), ParseDate(Stamp(2024, 3, 20, 12, 0))}
    /\ spDays \in (1..MaxSprintDays) \cup {SprintDays}
    /\ spResult = None
    /\ spPc = "call"

SprintNext == SprintCall

(***************************************************************************)
(* Sprint buckets: properties                                              *)
(***************************************************************************)
\* the sprint start date used: the one given, or the earliest created_at
EffectiveStart == IF spStart = None THEN MinCreatedAt(spIssues) ELSE spStart

Dated == {i \in DOMAIN spIssues : spIssues[i].created_at # None}

\* the instant S of the sprint whose date is the ordinal key
SprintInstant(key) == [ord |-> key, sec |-> EffectiveStart.sec]

\* S <= t < S + sprint_days
InSprint(t, key) ==
    /\ ~DatetimeLt(t, SprintInstant(key))
    /\ DatetimeLt(t, SprintInstant(key + spDays))

\* C24: issues_created_vs_closed_per_sprint (Sujan) places every issue that has
\* a created_at into exactly one 'created' bucket, keyed by the date of
\* S = sprint_start_date + k * sprint_days for an integer k (possibly negative)
\* with S <= created_at < S + sprint_days; when sprint_start_date is None it is
\* the earliest created_at, and the 'created' counts sum to the number of
\* issues having a created_at.
C24_CreatedBuckets ==
    spPc = "returned" =>
        LET created == spResult.created
        IN  /\ KeysDistinct(created)
            /\ CountsSum(created) = Cardinality(Dated)
            /\ Dated = {} => created = <<>>
            /\ Dated # {} =>
                  /\ \A b \in DOMAIN created :
                        /\ (created[b][1] - EffectiveStart.ord) % spDays = 0
                        /\ created[b][2] =
                              Cardinality({i \in Dated : InSprint(spIssues[i].created_at,
                                                                  created[b][1])})
                        /\ created[b][2] >= 1
                  /\ \A i \in Dated :
                        Cardinality({b \in DOMAIN created :
                                        InSprint(spIssues[i].created_at, created[b][1])}) = 1

\* with a given start of 2024-03-15 10:00 and 14-day sprints: an issue created
\* on 2024-03-01 falls in the sprint two before the start (k = -2), one created
\* a minute before the end of the first sprint stays in it
C24_Witness ==
    /\ spPc = "returned"
    /\ spDays = SprintDays
    /\ spStart = ParseDate(Stamp(2024, 3, 15, 10, 0))
    /\ Len(spIssues) = 2
    /\ spIssues[1].created_at = ParseDate(Stamp(2024, 3, 1, 9, 0))
    /\ spIssues[2].created_at = ParseDate(Stamp(2024, 3, 29, 9, 59))
    /\ spResult.created = <<<<Ordinal(2024, 2, 16), 1>>, <<Ordinal(2024, 3, 15), 1>>>>

(***************************************************************************)
(* bug_vs_feature_ratio of Sujan/src.  A label name is the sequence of its *)
(* characters.                                                             *)
(***************************************************************************)
MaxLabelIssues == 3

UpperCase ==
    <<"A", "B", "C", "D", "E", "F", "G", "H", "I", "J", "K", "L", "M",
      "N", "O", "P", "Q", "R", "S", "T", "U", "V", "W", "X", "Y", "Z">>

LowerCase ==
    <<"a", "b", "c", "d", "e", "f", "g", "h", "i", "j", "k", "l", "m",
      "n", "o", "p", "q", "r", "s", "t", "u", "v", "w", "x", "y", "z">>

\* str(l).lower()
Lower(label) ==
    [i \in DOMAIN label |->
        IF \E k \in DOMAIN UpperCase : UpperCase[k] = label[i]
        THEN LowerCase[CHOOSE k \in DOMAIN UpperCase : UpperCase[k] = label[i]]
        ELSE label[i]]

\* "tok in label" on strings
Contains(tok, label) ==
    \E i \in 1..(Len(label) - Len(tok) + 1) : SubSeq(label, i, i + Len(tok) - 1) = tok

BugWord == <<"b", "u", "g">>

FeatureWord == <<"f", "e", "a", "t", "u", "r", "e">>

EnhancementWord == <<"e", "n", "h", "a", "n", "c", "e", "m", "e", "n", "t">>

\* bug_tokens = ("bug", "kind:bug", "type:bug")
BugTokens ==
    {BugWord, <<"k", "i", "n", "d", ":">> \o BugWord, <<"t", "y", "p", "e", ":">> \o BugWord}

\* feature_tokens
FeatureTokens ==
    {FeatureWord, EnhancementWord,
     <<"k", "i", "n", "d", ":">> \o FeatureWord,
     <<"t", "y", "p", "e", ":">> \o FeatureWord,
     <<"t", "y", "p", "e", ":">> \o EnhancementWord}

\* any(any(tok in label for tok in tokens) for label in labels)
AnyTokenIn(tokens, labels) ==
    \E i \in DOMAIN labels : \E tok \in tokens : Contains(tok, labels[i])

\* a plausible slip: "if is_feature" in place of "elif is_feature"
IsCountedFeatureToo(is_bug, is_feature) == is_feature

\* "elif is_feature"
IsCountedFeature(is_bug, is_feature) == ~is_bug /\ is_feature

\* the loop of bug_vs_feature_ratio over the issues: <<bug, feature>>
RECURSIVE LabelLoop(_, _, _)
LabelLoop(bug, feature, issues) ==
    IF issues = <<>> THEN <<bug, feature>>
    ELSE LET labels == [i \in DOMAIN Head(issues) |-> Lower(Head(issues)[i])]
             is_bug == AnyTokenIn(BugTokens, labels)
             is_feature == AnyTokenIn(FeatureTokens, labels)
         IN LabelLoop(IF is_bug THEN bug + 1 ELSE bug,
                      IF IsCountedFeature(is_bug, is_feature) THEN feature + 1 ELSE feature,
                      Tail(issues))

\* bug_vs_feature_ratio(issues)
BugVsFeatureRatio(issues) ==
    LET counts == LabelLoop(0, 0, issues)
    IN [bug_issues |-> counts[1],
        feature_issues |-> counts[2],
        bug_feature_ratio |-> IF counts[2] # 0 THEN Round2(Rat(counts[1], counts[2])) ELSE None]

\* the label lists of the issues: none, "Bug", "bugfix-candidate", "debug",
\* "New Feature", "type:enhancement", "docs", "feature" with "kind:bug",
\* "docs" with "Enhancement"
LabelLists ==
    {<<>>,
     <<<<"B", "u", "g">>>>,
     <<BugWord \o <<"f", "i", "x", "-", "c", "a", "n", "d", "i", "d", "a", "t", "e">>>>,
     <<<<"d", "e">> \o BugWord>>,
     <<<<"N", "e", "w", " ", "F", "e", "a", "t", "u", "r", "e">>>>,
     <<<<"t", "y", "p", "e", ":">> \o EnhancementWord>>,
     <<<<"d", "o", "c", "s">>>>,
     <<FeatureWord, <<"k", "i", "n", "d", ":">> \o BugWord>>,
     <<<<"d", "o", "c", "s">>, <<"E">> \o Tail(EnhancementWord)>>}

\* run_issue_metrics: bug_feature = bug_vs_feature_ratio(issues)
LabelCall ==
    /\ lbPc = "call"
    /\ lbResult' = BugVsFeatureRatio(lbIssues)
    /\ lbPc' = "returned"
    /\ UNCHANGED lbIssues
    /\ UNCHANGED notLabel

LabelOff ==
    /\ lbIssues = <<>>
    /\ lbResult = None
    /\ lbPc = "off"

LabelInit ==
    /\ lbIssues \in UNION {[1..n -> LabelLists] : n \in 0..MaxLabelIssues}
    /\ lbResult = None
    /\ lbPc = "call"

LabelNext == LabelCall

(***************************************************************************)
(* Bug vs feature: properties                                              *)
(***************************************************************************)
\* some lower-cased label of the issue contains the word
HasWord(labels, word) == \E i \in DOMAIN labels : Contains(word, Lower(labels[i]))

BugIssues == {i \in DOMAIN lbIssues : HasWord(lbIssues[i], BugWord)}

FeatureIssues ==
    {i \in DOMAIN lbIssues \ BugIssues :
        HasWord(lbIssues[i], FeatureWord) \/ HasWord(lbIssues[i], EnhancementWord)}

\* C25: bug_vs_feature_ratio (Sujan) counts each issue at most once: as a bug
\* if and only if some lower-cased label contains the substring 'bug',
\* otherwise as a feature if and only if some label contains 'feature' or
\* 'enhancement'; an issue with both kinds of label is counted only as a bug,
\* and the ratio is null exactly when the feature count is 0.
C25_BugVsFeature ==
    lbPc = "returned" =>
        /\ lbResult.bug_issues = Cardinality(BugIssues)
        /\ lbResult.feature_issues = Cardinality(FeatureIssues)
        /\ lbResult.bug_issues + lbResult.feature_issues <= Len(lbIssues)
        /\ (lbResult.bug_feature_ratio = None) <=> (lbResult.feature_issues = 0)
        /\ lbResult.feature_issues # 0 =>
              lbResult.bug_feature_ratio
                  = Round2(Rat(Cardinality(BugIssues), Cardinality(FeatureIssues)))

\* 'bugfix-candidate' and an issue labelled both 'feature' and 'kind:bug' count
\* as bugs, 'New Feature' as the one feature: the ratio is 2.0
C25_Witness ==
    /\ lbPc = "returned"
    /\ Len(lbIssues) = 3
    /\ Len(lbIssues[1]) = 1 /\ Len(lbIssues[1][1]) = 16
    /\ Len(lbIssues[2]) = 2 /\ lbIssues[2][1] = FeatureWord
    /\ lbIssues[3] = <<<<"N", "e", "w", " ", "F", "e", "a", "t", "u", "r", "e">>>>
    /\ lbResult = [bug_issues |-> 2, feature_issues |-> 1, bug_feature_ratio |-> RatInt(2)]

(***************************************************************************)
(* Modes of Sujan/src/main.py.  The runners are taken to complete: each    *)
(* rewrites its CSV files.                                                 *)
(***************************************************************************)
Modes == {"issues", "code-quality", "security", "all", "pdf"}

Runners == {"run_issue_metrics", "run_code_quality_metrics", "run_security_metrics"}

\* def run_pdf_report(client, owner, repo)
RunPdfReportParams == <<"client", "owner", "repo">>

\* the call in main: run_pdf_report()
MainPdfArgs == <<>>

\* a call binds its positional arguments to the parameters, none of which has a
\* default; otherwise Python raises TypeError before the body runs
BindsArgs(params, args) == Len(args) = Len(params)

\* a runner finishes: its CSV files are rewritten
RunnerDone(runner, next) ==
    /\ mdCsv' = [mdCsv EXCEPT ![runner] = "fresh"]
    /\ mdEvents' = Append(mdEvents, runner)
    /\ mdPc' = next
    /\ UNCHANGED <<mdEntry, mdMode, mdExc>>

\* a statement of main that its mode does not select
ModeSkip(next) ==
    /\ mdPc' = next
    /\ UNCHANGED <<mdEntry, mdMode, mdCsv, mdEvents, mdExc>>

\* main: if args.mode in ("issues", "all"): run_issue_metrics(client, owner, repo)
MainIssues ==
    /\ mdPc = "main_issues"
    /\ IF mdMode \in {"issues", "all"}
       THEN RunnerDone("run_issue_metrics", "main_code_quality")
       ELSE ModeSkip("main_code_quality")
    /\ UNCHANGED notMode

\* main: if args.mode in ("code-quality", "all"): run_code_quality_metrics(...)
MainCodeQuality ==
    /\ mdPc = "main_code_quality"
    /\ IF mdMode \in {"code-quality", "all"}
       THEN RunnerDone("run_code_quality_metrics", "main_security")
       ELSE ModeSkip("main_security")
    /\ UNCHANGED notMode

\* main: if args.mode in ("security", "all"): run_security_metrics(...)
MainSecurity ==
    /\ mdPc = "main_security"
    /\ IF mdMode \in {"security", "all"}
       THEN RunnerDone("run_security_metrics", "main_pdf")
       ELSE ModeSkip("main_pdf")
    /\ UNCHANGED notMode

\* main: if args.mode == "pdf": run_pdf_report()
MainPdf ==
    /\ mdPc = "main_pdf"
    /\ IF mdMode # "pdf" THEN ModeSkip("exit")
       ELSE IF BindsArgs(RunPdfReportParams, MainPdfArgs) THEN ModeSkip("fetch_repo_metadata")
       ELSE /\ mdPc' = "raised"
            /\ mdExc' = "TypeError"
            /\ UNCHANGED <<mdEntry, mdMode, mdCsv, mdEvents>>
    /\ UNCHANGED notMode

\* run_pdf_report: repo_meta = fetch_repo_metadata(client, owner, repo)
RunPdfFetchRepoMetadata ==
    /\ mdPc = "fetch_repo_metadata"
    /\ mdEvents' = Append(mdEvents, "fetch_repo_metadata")
    /\ mdPc' = "pdf_issues"
    /\ UNCHANGED <<mdEntry, mdMode, mdCsv, mdExc>>
    /\ UNCHANGED notMode

\* run_pdf_report: run_issue_metrics(client, owner, repo, max_pages=20)
RunPdfIssues ==
    /\ mdPc = "pdf_issues"
    /\ RunnerDone("run_issue_metrics", "pdf_code_quality")
    /\ UNCHANGED notMode

\* run_pdf_report: run_code_quality_metrics(client, owner, repo)
RunPdfCodeQuality ==
    /\ mdPc = "pdf_code_quality"
    /\ RunnerDone("run_code_quality_metrics", "pdf_security")
    /\ UNCHANGED notMode

\* run_pdf_report: run_security_metrics(client, owner, repo)
RunPdfSecurity ==
    /\ mdPc = "pdf_security"
    /\ RunnerDone("run_security_metrics", "pdf_generate")
    /\ UNCHANGED notMode

\* run_pdf_report: generate_repo_pdf_from_csv(repo_meta, report_dir="reports", ...)
RunPdfGenerate ==
    /\ mdPc = "pdf_generate"
    /\ mdEvents' = Append(mdEvents, "generate_repo_pdf_from_csv")
    /\ mdPc' = "exit"
    /\ UNCHANGED <<mdEntry, mdMode, mdCsv, mdExc>>
    /\ UNCHANGED notMode

ModeOff ==
    /\ mdEntry = "off"
    /\ mdMode = "all"
    /\ mdCsv = [r \in Runners |-> "absent"]
    /\ mdEvents = <<>>
    /\ mdExc = "none"
    /\ mdPc = "off"

\* python main.py --repo owner/repo --mode <mode> after the repository check, or a
\* caller that passes run_pdf_report its three arguments
ModeInit ==
    /\ mdEntry \in {"main", "run_pdf_report"}
    /\ mdMode \in IF mdEntry = "main" THEN Modes ELSE {"pdf"}
    /\ mdCsv \in [Runners -> {"absent", "stale"}]
    /\ mdEvents = <<>>
    /\ mdExc = "none"
    /\ mdPc = IF mdEntry = "main" THEN "main_issues" ELSE "fetch_repo_metadata"

ModeNext ==
    \/ MainIssues
    \/ MainCodeQuality
    \/ MainSecurity
    \/ MainPdf
    \/ RunPdfFetchRepoMetadata
    \/ RunPdfIssues
    \/ RunPdfCodeQuality
    \/ RunPdfSecurity
    \/ RunPdfGenerate

(***************************************************************************)
(* Modes: properties                                                       *)
(***************************************************************************)
PdfGenerated == \E i \in DOMAIN mdEvents : mdEvents[i] = "generate_repo_pdf_from_csv"

\* the three runners finished, in the order issues, code quality, security, before
\* the PDF was generated
RefreshedBeforePdf ==
    \E i, j, k, p \in DOMAIN mdEvents :
        /\ i < j /\ j < k /\ k < p
        /\ mdEvents[i] = "run_issue_metrics"
        /\ mdEvents[j] = "run_code_quality_metrics"
        /\ mdEvents[k] = "run_security_metrics"
        /\ mdEvents[p] = "generate_repo_pdf_from_csv"

\* C26: in pdf mode (main with --mode pdf calling run_pdf_report), the
\* repository PDF is generated by the time main ends, and only after the issue,
\* code-quality and security runners have, in that order, finished rewriting
\* their CSV files in the same run; the PDF is never generated before or
\* without that refresh.
C26_PdfAfterRefresh ==
    /\ PdfGenerated => RefreshedBeforePdf /\ \A r \in Runners : mdCsv[r] = "fresh"
    /\ mdEntry = "main" /\ mdMode = "pdf" /\ mdPc \in {"exit", "raised"} =>
          PdfGenerated /\ mdPc = "exit"

(***************************************************************************)
(* Record caps of the fetchers.  A search node is null, lacks mergedAt,    *)
(* was merged before the window ("old") or is usable ("ok"); the API       *)
(* serves its pages in order and reports hasNextPage on all but the last.  *)
(* A step runs from one page request to the next.                          *)
(***************************************************************************)
MaxCap == 2

MaxCapPages == 2

MaxCapNodes == 2

CapFns == {"fetch_merged_pull_requests", "fetch_closed_not_merged_prs", "lines_added_vs_deleted"}

\* the nodes a fetcher can be served
NodeKinds(fn) ==
    CASE fn = "fetch_merged_pull_requests" -> {"null", "no_merged_at", "old", "ok"}
      [] fn = "fetch_closed_not_merged_prs" -> {"null", "ok"}
      [] OTHER -> {"ok"}

\* the "continue" tests of the for loop: the node is appended / its detail fetched
Kept(fn, node) ==
    CASE fn = "fetch_merged_pull_requests" -> node = "ok"
      [] fn = "fetch_closed_not_merged_prs" -> node # "null"
      [] OTHER -> TRUE

\* "if len(prs) >= max_prs", "if processed_commits >= max_commits"
CapReached(n, cap) == n >= cap

\* the for loop over the nodes of one page: the record is appended (the commit's
\* detail fetched) and the cap is tested after it
RECURSIVE ProcessNodes(_, _, _, _)
ProcessNodes(fn, out, nodes, cap) ==
    IF nodes = <<>> THEN out
    ELSE IF ~Kept(fn, Head(nodes)) THEN ProcessNodes(fn, out, Tail(nodes), cap)
    ELSE LET out2 == Append(out, Head(nodes))
         IN IF CapReached(Len(out2), cap) THEN out2
            ELSE ProcessNodes(fn, out2, Tail(nodes), cap)

\* the page the API serves for request number page
CapPageOf(page) == IF page <= Len(cpApi) THEN cpApi[page] ELSE <<>>

\* conn["pageInfo"]["hasNextPage"]
CapHasNextPage(page) == page < Len(cpApi)

\* one iteration of "while True" of a GraphQL search fetcher
SearchPage(fn) ==
    /\ cpPc = "loop"
    /\ cpFn = fn
    /\ LET out == ProcessNodes(fn, cpOut, CapPageOf(cpPage), cpCap)
       IN /\ cpOut' = out
          /\ IF CapReached(Len(out), cpCap) \/ ~CapHasNextPage(cpPage)
             THEN cpPc' = "returned" /\ UNCHANGED cpPage
             ELSE cpPage' = cpPage + 1 /\ UNCHANGED cpPc
    /\ UNCHANGED <<cpFn, cpCap, cpApi>>

\* fetch_merged_pull_requests: one iteration of "while True"
FetchMergedPullRequestsPage ==
    /\ SearchPage("fetch_merged_pull_requests")
    /\ UNCHANGED notCap

\* fetch_closed_not_merged_prs: one iteration of "while True"
FetchClosedNotMergedPrsPage ==
    /\ SearchPage("fetch_closed_not_merged_prs")
    /\ UNCHANGED notCap

\* lines_added_vs_deleted: one iteration of "while True"; an empty page ends the loop
LinesAddedVsDeletedPage ==
    /\ cpPc = "loop"
    /\ cpFn = "lines_added_vs_deleted"
    /\ LET commits == CapPageOf(cpPage)
           out == ProcessNodes(cpFn, cpOut, commits, cpCap)
       IN IF commits = <<>>
          THEN cpPc' = "returned" /\ UNCHANGED <<cpOut, cpPage>>
          ELSE /\ cpOut' = out
               /\ IF CapReached(Len(out), cpCap)
                  THEN cpPc' = "returned" /\ UNCHANGED cpPage
                  ELSE cpPage' = cpPage + 1 /\ UNCHANGED cpPc
    /\ UNCHANGED <<cpFn, cpCap, cpApi>>
    /\ UNCHANGED notCap

CapOff ==
    /\ cpFn = "off"
    /\ cpCap = 0
    /\ cpApi = <<>>
    /\ cpPage = 1
    /\ cpOut = <<>>
    /\ cpPc = "off"

CapInit ==
    /\ cpFn \in CapFns
    /\ cpCap \in 0..MaxCap
    /\ \E n \in 1..MaxCapPages :
          cpApi \in [1..n -> UNION {[1..k -> NodeKinds(cpFn)] : k \in 0..MaxCapNodes}]
    /\ cpFn = "lines_added_vs_deleted" => \A i \in DOMAIN cpApi : cpApi[i] # <<>>
    /\ cpPage = 1
    /\ cpOut = <<>>
    /\ cpPc = "loop"

CapNext ==
    \/ FetchMergedPullRequestsPage
    \/ FetchClosedNotMergedPrsPage
    \/ LinesAddedVsDeletedPage

(***************************************************************************)
(* Record caps: properties                                                 *)
(***************************************************************************)
\* C29: the record caps of the fetchers are never exceeded, for every cap >= 0
\* and every sequence of API pages: fetch_merged_pull_requests and
\* fetch_closed_not_merged_prs return at most max_prs records, and
\* lines_added_vs_deleted fetches details for at most max_commits commits.
C29_CapsNeverExceeded == Len(cpOut) <= cpCap

(***************************************************************************)
(* Specifications: one per component, the other components left idle       *)
(***************************************************************************)
InitBus == BusInit /\ LeadOff /\ ChurnOff /\ PoolOff /\ BucketOff /\ PageOff /\ RetryOff /\ StartupOff /\ AggOff /\ ExportOff /\ BackoffOff /\ TailOff /\ SprintOff /\ LabelOff /\ ModeOff /\ CapOff

SpecBus == InitBus /\ [][BusNext]_vars

InitLead == LeadInit /\ BusOff /\ ChurnOff /\ PoolOff /\ BucketOff /\ PageOff /\ RetryOff /\ StartupOff /\ AggOff /\ ExportOff /\ BackoffOff /\ TailOff /\ SprintOff /\ LabelOff /\ ModeOff /\ CapOff

SpecLead == InitLead /\ [][LeadNext]_vars

InitChurn == ChurnInit /\ BusOff /\ LeadOff /\ PoolOff /\ BucketOff /\ PageOff /\ RetryOff /\ StartupOff /\ AggOff /\ ExportOff /\ BackoffOff /\ TailOff /\ SprintOff /\ LabelOff /\ ModeOff /\ CapOff

SpecChurn == InitChurn /\ [][ChurnNext]_vars

InitPool == PoolInit /\ BusOff /\ LeadOff /\ ChurnOff /\ BucketOff /\ PageOff /\ RetryOff /\ StartupOff /\ AggOff /\ ExportOff /\ BackoffOff /\ TailOff /\ SprintOff /\ LabelOff /\ ModeOff /\ CapOff

SpecPool == InitPool /\ [][PoolNext]_vars

InitBucket == BucketInit /\ BusOff /\ LeadOff /\ ChurnOff /\ PoolOff /\ PageOff /\ RetryOff /\ StartupOff /\ AggOff /\ ExportOff /\ BackoffOff /\ TailOff /\ SprintOff /\ LabelOff /\ ModeOff /\ CapOff

SpecBucket == InitBucket /\ [][BucketNext]_vars

InitPage == PageInit /\ BusOff /\ LeadOff /\ ChurnOff /\ PoolOff /\ BucketOff /\ RetryOff /\ StartupOff /\ AggOff /\ ExportOff /\ BackoffOff /\ TailOff /\ SprintOff /\ LabelOff /\ ModeOff /\ CapOff

SpecPage == InitPage /\ [][PageNext]_vars

\* a fetcher that can take a step does take it: each runs in a thread of its own
\* or in the single main thread, which nothing preempts for ever
FairSpecPage == InitPage /\ [][PageNext]_vars /\ WF_vars(PageNext)

InitRetry == RetryInit /\ BusOff /\ LeadOff /\ ChurnOff /\ PoolOff /\ BucketOff /\ PageOff /\ StartupOff /\ AggOff /\ ExportOff /\ BackoffOff /\ TailOff /\ SprintOff /\ LabelOff /\ ModeOff /\ CapOff

SpecRetry == InitRetry /\ [][RetryNext]_vars

\* the executor's worker threads and the collecting loop run whenever they can:
\* fetch_commit_details ends (the client's timeout and bounded retries), and
\* as_completed yields a finished future
FairSpecPool == InitPool /\ [][PoolNext]_vars /\ WF_vars(PoolNext)

InitStartup == StartupInit /\ BusOff /\ LeadOff /\ ChurnOff /\ PoolOff /\ BucketOff /\ PageOff /\ RetryOff /\ AggOff /\ ExportOff /\ BackoffOff /\ TailOff /\ SprintOff /\ LabelOff /\ ModeOff /\ CapOff

SpecStartup == InitStartup /\ [][StartupNext]_vars

InitAgg == AggInit /\ BusOff /\ LeadOff /\ ChurnOff /\ PoolOff /\ BucketOff /\ PageOff /\ RetryOff /\ StartupOff /\ ExportOff /\ BackoffOff /\ TailOff /\ SprintOff /\ LabelOff /\ ModeOff /\ CapOff

SpecAgg == InitAgg /\ [][AggNext]_vars

InitExport == ExportInit /\ BusOff /\ LeadOff /\ ChurnOff /\ PoolOff /\ BucketOff /\ PageOff /\ RetryOff /\ StartupOff /\ AggOff /\ BackoffOff /\ TailOff /\ SprintOff /\ LabelOff /\ ModeOff /\ CapOff

SpecExport == InitExport /\ [][ExportNext]_vars

InitBackoff == BackoffInit /\ BusOff /\ LeadOff /\ ChurnOff /\ PoolOff /\ BucketOff /\ PageOff /\ RetryOff /\ StartupOff /\ AggOff /\ ExportOff /\ TailOff /\ SprintOff /\ LabelOff /\ ModeOff /\ CapOff

SpecBackoff == InitBackoff /\ [][BackoffNext]_vars

InitTail == TailInit /\ BusOff /\ LeadOff /\ ChurnOff /\ PoolOff /\ BucketOff /\ PageOff /\ RetryOff /\ StartupOff /\ AggOff /\ ExportOff /\ BackoffOff /\ SprintOff /\ LabelOff /\ ModeOff /\ CapOff

SpecTail == InitTail /\ [][TailNext]_vars

InitSprint == SprintInit /\ BusOff /\ LeadOff /\ ChurnOff /\ PoolOff /\ BucketOff /\ PageOff /\ RetryOff /\ StartupOff /\ AggOff /\ ExportOff /\ BackoffOff /\ TailOff /\ LabelOff /\ ModeOff /\ CapOff

SpecSprint == InitSprint /\ [][SprintNext]_vars

InitLabel == LabelInit /\ BusOff /\ LeadOff /\ ChurnOff /\ PoolOff /\ BucketOff /\ PageOff /\ RetryOff /\ StartupOff /\ AggOff /\ ExportOff /\ BackoffOff /\ TailOff /\ SprintOff /\ ModeOff /\ CapOff

SpecLabel == InitLabel /\ [][LabelNext]_vars

InitMode == ModeInit /\ BusOff /\ LeadOff /\ ChurnOff /\ PoolOff /\ BucketOff /\ PageOff /\ RetryOff /\ StartupOff /\ AggOff /\ ExportOff /\ BackoffOff /\ TailOff /\ SprintOff /\ LabelOff /\ CapOff

SpecMode == InitMode /\ [][ModeNext]_vars

InitCap == CapInit /\ BusOff /\ LeadOff /\ ChurnOff /\ PoolOff /\ BucketOff /\ PageOff /\ RetryOff /\ StartupOff /\ AggOff /\ ExportOff /\ BackoffOff /\ TailOff /\ SprintOff /\ LabelOff /\ ModeOff

SpecCap == InitCap /\ [][CapNext]_vars

====
